---- MODULE Spec2Model ----
(***************************************************************************)
(* Bank accounts (src/src/account.py), the account registry                *)
(* (src/src/registry.py) and its two storage backends                      *)
(* (src/src/repositories/memory_repository.py, mongo_repository.py).       *)
(*                                                                         *)
(* Amounts are modelled as integers (the code uses Python numbers); a      *)
(* Python str is modelled as the sequence of its character codes, so that  *)
(* len(), slicing, startswith() and the ordering of strings are computed   *)
(* as the code computes them.                                              *)
(***************************************************************************)
EXTENDS Integers, Sequences, FiniteSets, TLC

VARIABLES
    \* a single account, the arguments it was built with, the last call on it
    acct, ctor, call,
    \* the Python objects of class PersonalAccount that some list refers to
    heap,
    \* the class of each repository, "memory" or "mongo"
    kinds,
    \* the content of each repository: a list of objects for an in-memory one,
    \* the documents of the collection for a document-store one
    store,
    \* the last call on the registry or on a repository, with its outcome
    rcall,
    \* concurrent add_account calls: position, argument and outcome of each
    pc, arg, outcome

accountVars == <<acct, ctor, call>>
registryVars == <<heap, kinds, store, rcall>>
raceVars == <<pc, arg, outcome>>
vars == <<acct, ctor, call, heap, kinds, store, rcall, pc, arg, outcome>>

(***************************************************************************)
(* Bounds of the model.                                                    *)
(***************************************************************************)
\* longest history explored for a single account
MaxHist == 6
\* largest amount passed to a transfer or a loan
MaxAmount == 2
\* most accounts a repository is filled with
MaxAccounts == 2
\* most PersonalAccount objects alive at a time: those of two in-memory lists
\* and one more that the caller holds
MaxObjects == 2 * MaxAccounts + 1

None == "None"

\* amounts passed to the operations: a negative one, zero, the smallest and
\* the largest positive one
Amounts == {-1, 0, 1, MaxAmount}

(***************************************************************************)
(* Python strings as sequences of character codes.                         *)
(***************************************************************************)
\* "PROM_123"
PROM_123 == <<80, 82, 79, 77, 95, 49, 50, 51>>
\* "PROM_12"
PROM_12 == <<80, 82, 79, 77, 95, 49, 50>>
\* "PRIM_123"
PRIM_123 == <<80, 82, 73, 77, 95, 49, 50, 51>>
\* "PROM_"
PROM_ == <<80, 82, 79, 77, 95>>
\* "60"
S60 == <<54, 48>>
\* "69"
S69 == <<54, 57>>
\* "60241114012", born in the sixties
P60 == <<54, 48, 50, 52, 49, 49, 49, 52, 48, 49, 50>>
\* "06241114012"
P06 == <<48, 54, 50, 52, 49, 49, 49, 52, 48, 49, 50>>
\* "80010112345"
P80 == <<56, 48, 48, 49, 48, 49, 49, 50, 51, 52, 53>>
\* "6524111401", ten characters only
P65short == <<54, 53, 50, 52, 49, 49, 49, 52, 48, 49>>
\* "1234567890"
NIP_OK == <<49, 50, 51, 52, 53, 54, 55, 56, 57, 48>>
\* "123"
NIP_SHORT == <<49, 50, 51>>

\* str.__le__: lexicographic order on character codes
RECURSIVE StrLeq(_, _)
StrLeq(s, t) ==
    IF s = <<>> THEN TRUE
    ELSE IF t = <<>> THEN FALSE
    ELSE IF Head(s) < Head(t) THEN TRUE
    ELSE IF Head(s) > Head(t) THEN FALSE
    ELSE StrLeq(Tail(s), Tail(t))

\* str.startswith
startswith(s, prefix) ==
    /\ Len(s) >= Len(prefix)
    /\ SubSeq(s, 1, Len(prefix)) = prefix

\* sum(list)
RECURSIVE Sum(_)
Sum(s) == IF s = <<>> THEN 0 ELSE Head(s) + Sum(Tail(s))

\* list[-n:]
LastN(s, n) == IF Len(s) <= n THEN s ELSE SubSeq(s, Len(s) - n + 1, Len(s))

(***************************************************************************)
(* Account, PersonalAccount, BusinessAccount.                              *)
(***************************************************************************)
PromoBonus == 50

\* express_transfer_fee, a class attribute
express_transfer_fee(a) ==
    CASE a.kind = "personal" -> 1
      [] a.kind = "business" -> 5
      [] OTHER -> 0

\* Account.__init__
AccountInit(balance) ==
    [kind |-> "base", balance |-> balance, historia |-> <<>>]

is_born_in_60s(pesel) ==
    IF Len(pesel) = 11
    THEN LET birth_year_prefix == SubSeq(pesel, 1, 2)
         IN  StrLeq(S60, birth_year_prefix) /\ StrLeq(birth_year_prefix, S69)
    ELSE FALSE

promo_applies_nolen(pesel, promo_code) ==
    /\ promo_code # None
    /\ startswith(promo_code, PROM_)
    /\ is_born_in_60s(pesel)

promo_applies(pesel, promo_code) ==
    /\ promo_code # None
    /\ startswith(promo_code, PROM_)
    /\ Len(promo_code) = 8
    /\ is_born_in_60s(pesel)

\* PersonalAccount.__init__
PersonalAccountInit(first_name, last_name, balance, pesel, promo_code) ==
    [kind |-> "personal",
     first_name |-> first_name, last_name |-> last_name,
     pesel |-> pesel, promo_code |-> promo_code,
     balance |-> IF promo_applies(pesel, promo_code)
                 THEN balance + PromoBonus ELSE balance,
     historia |-> IF promo_applies(pesel, promo_code)
                  THEN <<PromoBonus>> ELSE <<>>]

\* str.isdigit on ASCII text
isdigit(s) == s # <<>> /\ \A i \in 1 .. Len(s) : s[i] \in 48 .. 57

\* BusinessAccount.__init__: the NIP is checked with the tax authority only
\* when it is ten digits long
nip_needs_validation(nip) == Len(nip) = 10 /\ isdigit(nip)

\* BusinessAccount.__init__: ValueError("Company not registered!!")
BusinessAccountRaises(nip, validated) ==
    nip_needs_validation(nip) /\ ~validated

\* BusinessAccount.__init__ when it does not raise; promo_code is ignored
BusinessAccountInit(company_name, nip, promo_code) ==
    [kind |-> "business", company_name |-> company_name,
     nip |-> IF nip_needs_validation(nip) THEN nip ELSE "Invalid",
     balance |-> 0, historia |-> <<>>]

\* what the request to the tax authority's service comes to
MfResponses == {"Czynny", "Nieczynny", "no_subject", "http_error", "exception"}

validate_nip_in_mf_anysubject(response) ==
    response \in {"Czynny", "Nieczynny"}

\* BusinessAccount.validate_nip_in_mf: True only for a subject whose
\* statusVat is "Czynny"; an HTTP error status and any exception give False
validate_nip_in_mf(response) ==
    IF response \in {"http_error", "exception"} THEN FALSE
    ELSE LET subject == IF response = "no_subject" THEN None ELSE response
         IN  subject # None /\ subject = "Czynny"

\* BusinessAccount(company_name, nip, promo_code): the account built, the
\* exception raised (None when the call returns) and the number of calls of
\* validate_nip_in_mf
BusinessAccountNew(company_name, nip, promo_code, response) ==
    LET validated == validate_nip_in_mf(response)
    IN  [account |-> BusinessAccountInit(company_name, nip, promo_code),
         raised |-> IF BusinessAccountRaises(nip, validated)
                    THEN "ValueError" ELSE None,
         verifications |-> IF nip_needs_validation(nip) THEN 1 ELSE 0]

\* incoming_transfer that turns down only the amount zero
incoming_transfer_nonzero(a, amount) ==
    IF amount # 0
    THEN [a EXCEPT !.balance = @ + amount, !.historia = Append(@, amount)]
    ELSE a

incoming_transfer_nocheck(a, amount) ==
    [a EXCEPT !.balance = @ + amount, !.historia = Append(@, amount)]

\* Account.incoming_transfer
incoming_transfer(a, amount) ==
    IF amount > 0
    THEN [a EXCEPT !.balance = @ + amount, !.historia = Append(@, amount)]
    ELSE a

outgoing_transfer_nolimit(a, amount) ==
    IF 0 < amount
    THEN [a EXCEPT !.balance = @ - amount, !.historia = Append(@, -amount)]
    ELSE a

outgoing_transfer_strict(a, amount) ==
    IF 0 < amount /\ amount < a.balance
    THEN [a EXCEPT !.balance = @ - amount, !.historia = Append(@, -amount)]
    ELSE a

outgoing_transfer_nohist(a, amount) ==
    IF 0 < amount /\ amount <= a.balance
    THEN [a EXCEPT !.balance = @ - amount]
    ELSE a

\* Account.outgoing_transfer
outgoing_transfer(a, amount) ==
    IF 0 < amount /\ amount <= a.balance
    THEN [a EXCEPT !.balance = @ - amount, !.historia = Append(@, -amount)]
    ELSE a

express_transfer_onedelta(a, amount) ==
    IF 0 < amount /\ amount <= a.balance
    THEN LET total_charge == amount + express_transfer_fee(a)
         IN  [a EXCEPT !.balance = @ - total_charge,
                       !.historia = Append(@, -total_charge)]
    ELSE a

express_transfer_feecheck(a, amount) ==
    IF 0 < amount /\ amount + express_transfer_fee(a) <= a.balance
    THEN LET total_charge == amount + express_transfer_fee(a)
         IN  [a EXCEPT !.balance = @ - total_charge,
                       !.historia = Append(Append(@, -amount),
                                           -express_transfer_fee(a))]
    ELSE a

\* Account.express_transfer
express_transfer(a, amount) ==
    IF 0 < amount /\ amount <= a.balance
    THEN LET total_charge == amount + express_transfer_fee(a)
         IN  [a EXCEPT !.balance = @ - total_charge,
                       !.historia = Append(Append(@, -amount),
                                           -express_transfer_fee(a))]
    ELSE a

\* PersonalAccount._check_loan_condition_1
check_loan_condition_1(a) ==
    IF Len(a.historia) < 3 THEN FALSE
    ELSE LET last_three == LastN(a.historia, 3)
         IN  \A i \in 1 .. Len(last_three) : last_three[i] > 0

check_loan_condition_2_geq(a, amount) ==
    IF Len(a.historia) < 5 THEN FALSE
    ELSE Sum(LastN(a.historia, 5)) >= amount

\* PersonalAccount._check_loan_condition_2
check_loan_condition_2(a, amount) ==
    IF Len(a.historia) < 5 THEN FALSE
    ELSE LET sum_last_five == Sum(LastN(a.historia, 5))
         IN  sum_last_five > amount

\* PersonalAccount.submit_for_loan: the value returned
is_granted(a, amount) ==
    check_loan_condition_1(a) \/ check_loan_condition_2(a, amount)

\* PersonalAccount.submit_for_loan: the account afterwards
submit_for_loan(a, amount) ==
    IF is_granted(a, amount)
    THEN [a EXCEPT !.balance = @ + amount, !.historia = Append(@, amount)]
    ELSE a

take_loan_granted_strict(a, amount) ==
    LET condition_1 == a.balance > (amount * 2)
        condition_2 == \E i \in 1 .. Len(a.historia) : a.historia[i] = -1775
    IN  condition_1 /\ condition_2

\* BusinessAccount.take_loan: the value returned
take_loan_granted(a, amount) ==
    LET condition_1 == a.balance >= (amount * 2)
        condition_2 == \E i \in 1 .. Len(a.historia) : a.historia[i] = -1775
    IN  condition_1 /\ condition_2

take_loan_nohist(a, amount) ==
    IF take_loan_granted(a, amount)
    THEN [a EXCEPT !.balance = @ + amount]
    ELSE a

\* BusinessAccount.take_loan: the account afterwards
take_loan(a, amount) ==
    IF take_loan_granted(a, amount)
    THEN [a EXCEPT !.balance = @ + amount, !.historia = Append(@, amount)]
    ELSE a

(***************************************************************************)
(* Objects and repositories.                                               *)
(***************************************************************************)
\* a slot of the heap that holds no object
NoObj == [kind |-> "free"]

EmptyHeap == [i \in 1 .. MaxObjects |-> NoObj]

\* the repositories: the registry's own backend and a repository outside
\* the registry
Repos == {"own", "ext"}

BackendKinds == {"memory", "mongo"}

EmptyStore == [r \in Repos |-> <<>>]

\* the class of a repository
KindOf(kind, r) == kind[r]

\* an account in the hands of the caller: the object (0 when it is not stored
\* in any list yet) and its attributes
Item(id, val) == [id |-> id, val |-> val]

NoItem == [id |-> 0, val |-> NoObj]

FreeSlots(h) == {i \in DOMAIN h : h[i] = NoObj}

\* the objects the in-memory lists refer to, each once, in the order the
\* lists reach them: the registry's own list first
RECURSIVE Reached(_, _)
Reached(ids, seen) ==
    IF ids = <<>> THEN seen
    ELSE IF \E i \in 1 .. Len(seen) : seen[i] = Head(ids)
    THEN Reached(Tail(ids), seen)
    ELSE Reached(Tail(ids), Append(seen, Head(ids)))

\* an object's address carries no meaning: after reclaiming, the objects are
\* numbered in the order the lists and then the caller's own references
\* (held) reach them, which keeps every attribute and every sharing of one
\* object
CompactWith(h, kind, st, held) ==
    LET lists == (IF KindOf(kind, "own") = "memory" THEN st["own"] ELSE <<>>)
                 \o (IF KindOf(kind, "ext") = "memory" THEN st["ext"] ELSE <<>>)
        order == Reached(lists \o held, <<>>)
        rank(id) == CHOOSE i \in 1 .. Len(order) : order[i] = id
    IN  [heap |-> [i \in DOMAIN h |->
                      IF i <= Len(order) THEN h[order[i]] ELSE NoObj],
         store |-> [r \in Repos |->
                      IF KindOf(kind, r) = "memory"
                      THEN [j \in 1 .. Len(st[r]) |-> rank(st[r][j])]
                      ELSE st[r]],
         held |-> [j \in 1 .. Len(held) |-> rank(held[j])]]

\* the same when the caller keeps no reference of its own
Compact(h, kind, st) == CompactWith(h, kind, st, <<>>)

Min(S) == CHOOSE x \in S : \A y \in S : x <= y

\* MongoAccountsRepository._account_to_dict
account_to_dict(account) ==
    [first_name |-> account.first_name,
     last_name |-> account.last_name,
     balance |-> account.balance,
     pesel |-> account.pesel,
     promo_code |-> account.promo_code,
     historia |-> account.historia]

dict_to_account_promo(doc) ==
    LET account == PersonalAccountInit(doc.first_name, doc.last_name,
                                       doc.balance, doc.pesel, doc.promo_code)
    IN  [account EXCEPT !.historia = doc.historia]

\* MongoAccountsRepository._dict_to_account
dict_to_account(doc) ==
    LET account == PersonalAccountInit(doc.first_name, doc.last_name, 0,
                                       doc.pesel, None)
    IN  [account EXCEPT !.balance = doc.balance,
                        !.historia = doc.historia,
                        !.promo_code = doc.promo_code]

\* the unique index on "pesel" created in MongoAccountsRepository.__init__
DuplicateKey(docs, doc) == \E i \in 1 .. Len(docs) : docs[i].pesel = doc.pesel

\* insert_one into a collection without the unique index
insert_one_noindex(docs, doc) ==
    [docs |-> Append(docs, doc), raised |-> None]

\* collection.insert_one: the collection afterwards, and whether
\* DuplicateKeyError was raised
insert_one(docs, doc) ==
    IF DuplicateKey(docs, doc)
    THEN [docs |-> docs, raised |-> "DuplicateKeyError"]
    ELSE [docs |-> Append(docs, doc), raised |-> None]

\* collection.insert_many (ordered): documents are inserted one by one and the
\* first duplicate key stops the insertion with BulkWriteError
RECURSIVE insert_many(_, _)
insert_many(docs, documents) ==
    IF documents = <<>> THEN [docs |-> docs, raised |-> None]
    ELSE IF DuplicateKey(docs, Head(documents))
    THEN [docs |-> docs, raised |-> "BulkWriteError"]
    ELSE insert_many(Append(docs, Head(documents)), Tail(documents))

\* the accounts become objects of the heap: an account that is an object
\* already keeps its identity, the others take a free slot
RECURSIVE Materialize(_, _, _)
Materialize(h, items, ids) ==
    IF items = <<>> THEN [heap |-> h, ids |-> ids, ok |-> TRUE]
    ELSE IF Head(items).id # 0
    THEN Materialize(h, Tail(items), Append(ids, Head(items).id))
    ELSE IF FreeSlots(h) = {} THEN [heap |-> h, ids |-> ids, ok |-> FALSE]
    ELSE LET i == Min(FreeSlots(h))
         IN  Materialize([h EXCEPT ![i] = Head(items).val], Tail(items),
                         Append(ids, i))

\* get_all of either backend: a copy of the list of objects, or one new
\* object per document, in the order of the collection
get_all(k, h, c) ==
    IF k = "memory"
    THEN [i \in 1 .. Len(c) |-> Item(c[i], h[c[i]])]
    ELSE [i \in 1 .. Len(c) |-> Item(0, dict_to_account(c[i]))]

\* load_all of either backend
load_all(k, h, c) == get_all(k, h, c)

\* find_by_pesel of either backend: the first match, or NoItem for None
find_by_pesel(k, h, c, pesel) ==
    LET all == get_all(k, h, c)
        hits == {i \in 1 .. Len(all) : all[i].val.pesel = pesel}
    IN  IF hits = {} THEN NoItem ELSE all[Min(hits)]

\* count of either backend
count(k, c) == Len(c)

\* add with a uniqueness test on the PESEL in the in-memory repository too
add_unique(k, h, c, item) ==
    IF k = "memory"
    THEN LET m == Materialize(h, <<item>>, <<>>)
         IN  IF \E i \in 1 .. Len(c) : h[c[i]].pesel = item.val.pesel
             THEN [heap |-> h, content |-> c, raised |-> "DuplicateKeyError",
                   ok |-> TRUE]
             ELSE [heap |-> m.heap, content |-> c \o m.ids, raised |-> None,
                   ok |-> m.ok]
    ELSE LET r == insert_one(c, account_to_dict(item.val))
         IN  [heap |-> h, content |-> r.docs, raised |-> r.raised, ok |-> TRUE]

\* add with the new account put in front of the stored ones
add_front(k, h, c, item) ==
    IF k = "memory"
    THEN LET m == Materialize(h, <<item>>, <<>>)
         IN  [heap |-> m.heap, content |-> m.ids \o c, raised |-> None,
              ok |-> m.ok]
    ELSE LET r == insert_one(c, account_to_dict(item.val))
         IN  [heap |-> h, content |-> r.docs, raised |-> r.raised, ok |-> TRUE]

\* add of either backend: InMemoryAccountRepository appends the object,
\* MongoAccountsRepository inserts its document
add(k, h, c, item) ==
    IF k = "memory"
    THEN LET m == Materialize(h, <<item>>, <<>>)
         IN  [heap |-> m.heap, content |-> c \o m.ids, raised |-> None,
              ok |-> m.ok]
    ELSE LET r == insert_one(c, account_to_dict(item.val))
         IN  [heap |-> h, content |-> r.docs, raised |-> r.raised, ok |-> TRUE]

\* add of either backend for each account of a list in turn, until one raises
RECURSIVE add_each(_, _, _, _)
add_each(k, h, c, items) ==
    IF items = <<>>
    THEN [heap |-> h, content |-> c, raised |-> None, ok |-> TRUE]
    ELSE LET r == add(k, h, c, Head(items))
         IN  IF r.raised # None \/ ~r.ok THEN r
             ELSE add_each(k, r.heap, r.content, Tail(items))

\* the attribute as update leaves it: the value supplied, or the old one
\* when None is supplied
Supplied(new, old) == IF new # None THEN new ELSE old

\* a list without its i-th element
RemoveAt(seq, i) == SubSeq(seq, 1, i - 1) \o SubSeq(seq, i + 1, Len(seq))

\* the positions of the accounts with a PESEL, in a list of objects or in the
\* documents of a collection
Matches(k, h, c, pesel) ==
    {i \in 1 .. Len(c) :
        (IF k = "memory" THEN h[c[i]].pesel ELSE c[i].pesel) = pesel}

update_always(k, h, c, pesel, first_name, last_name) ==
    LET hits == Matches(k, h, c, pesel)
    IN  IF hits = {}
        THEN [heap |-> h, content |-> c, ret |-> NoItem, raised |-> None]
        ELSE IF k = "memory"
        THEN LET id == c[Min(hits)]
                 h2 == [h EXCEPT ![id].first_name = first_name,
                                 ![id].last_name = last_name]
             IN  [heap |-> h2, content |-> c, ret |-> Item(id, h2[id]),
                  raised |-> None]
        ELSE LET c2 == [c EXCEPT ![Min(hits)].first_name = first_name,
                                 ![Min(hits)].last_name = last_name]
             IN  [heap |-> h, content |-> c2,
                  ret |-> find_by_pesel(k, h, c2, pesel), raised |-> None]

\* update of either backend: InMemoryAccountRepository sets the attributes of
\* the object it finds, MongoAccountsRepository sets the fields of the first
\* matching document (update_one with $set) and reads the account back
update(k, h, c, pesel, first_name, last_name) ==
    IF k = "memory"
    THEN LET account == find_by_pesel(k, h, c, pesel)
         IN  IF account = NoItem
             THEN [heap |-> h, content |-> c, ret |-> NoItem, raised |-> None]
             ELSE LET h2 == [h EXCEPT
                                ![account.id].first_name =
                                    Supplied(first_name, @),
                                ![account.id].last_name =
                                    Supplied(last_name, @)]
                  IN  [heap |-> h2, content |-> c,
                       ret |-> Item(account.id, h2[account.id]),
                       raised |-> None]
    ELSE IF first_name = None /\ last_name = None
    THEN [heap |-> h, content |-> c, ret |-> find_by_pesel(k, h, c, pesel),
          raised |-> None]
    ELSE LET hits == Matches(k, h, c, pesel)
             matched_count == IF hits = {} THEN 0 ELSE 1
             c2 == IF hits = {} THEN c
                   ELSE [c EXCEPT
                            ![Min(hits)].first_name = Supplied(first_name, @),
                            ![Min(hits)].last_name = Supplied(last_name, @)]
         IN  IF matched_count = 0
             THEN [heap |-> h, content |-> c, ret |-> NoItem, raised |-> None]
             ELSE [heap |-> h, content |-> c2,
                   ret |-> find_by_pesel(k, h, c2, pesel), raised |-> None]

delete_all(k, h, c, pesel) ==
    LET hits == Matches(k, h, c, pesel)
    IN  [heap |-> h, content |-> SelectSeq(c, LAMBDA x :
                        (IF k = "memory" THEN h[x].pesel ELSE x.pesel) # pesel),
         ret |-> hits # {}, raised |-> None]

\* delete of either backend: InMemoryAccountRepository removes the first
\* occurrence of the object it finds (list.remove), MongoAccountsRepository
\* the first matching document (delete_one)
delete(k, h, c, pesel) ==
    IF k = "memory"
    THEN LET account == find_by_pesel(k, h, c, pesel)
         IN  IF account = NoItem
             THEN [heap |-> h, content |-> c, ret |-> FALSE, raised |-> None]
             ELSE LET i == Min({j \in 1 .. Len(c) : c[j] = account.id})
                  IN  [heap |-> h, content |-> RemoveAt(c, i), ret |-> TRUE,
                       raised |-> None]
    ELSE LET hits == Matches(k, h, c, pesel)
             deleted_count == IF hits = {} THEN 0 ELSE 1
         IN  [heap |-> h,
              content |-> IF hits = {} THEN c ELSE RemoveAt(c, Min(hits)),
              ret |-> deleted_count > 0, raised |-> None]

\* clear of either backend
clear(k, h, c) == [heap |-> h, content |-> <<>>, ret |-> None, raised |-> None]

save_all_keep(k, h, c, items) ==
    IF k = "memory"
    THEN LET m == Materialize(h, items, <<>>)
         IN  [heap |-> m.heap, content |-> c \o m.ids, ret |-> Len(c \o m.ids),
              raised |-> None, ok |-> m.ok]
    ELSE LET documents == [i \in 1 .. Len(items) |->
                              account_to_dict(items[i].val)]
             r == insert_many(c, documents)
         IN  [heap |-> h, content |-> r.docs,
              ret |-> IF items = <<>> THEN 0 ELSE Len(documents),
              raised |-> r.raised, ok |-> TRUE]

\* save_all of either backend: InMemoryAccountRepository replaces its list,
\* MongoAccountsRepository empties the collection and inserts the documents
save_all(k, h, c, items) ==
    IF k = "memory"
    THEN LET m == Materialize(h, items, <<>>)
         IN  [heap |-> m.heap, content |-> m.ids, ret |-> Len(m.ids),
              raised |-> None, ok |-> m.ok]
    ELSE LET documents == [i \in 1 .. Len(items) |->
                              account_to_dict(items[i].val)]
             r == insert_many(<<>>, documents)
         IN  [heap |-> h, content |-> r.docs,
              ret |-> IF items = <<>> THEN 0 ELSE Len(documents),
              raised |-> r.raised, ok |-> TRUE]

(***************************************************************************)
(* AccountRegistry.  Each operation takes the heap, the backend kind and   *)
(* the repositories and gives the heap and repositories afterwards, the    *)
(* value returned (ret), the exception raised (raised, None when the call  *)
(* returns), and the number of calls of the backend's add (adds).          *)
(***************************************************************************)
\* `repository or self._repository`
Resolve(repository) == IF repository = None THEN "own" ELSE repository

\* AccountRegistry.find_account_by_pesel
find_account_by_pesel(h, kind, st, pesel) ==
    find_by_pesel(kind["own"], h, st["own"], pesel)

\* AccountRegistry.get_all_accounts
get_all_accounts(h, kind, st) == get_all(kind["own"], h, st["own"])

\* AccountRegistry.get_account_count
get_account_count(kind, st) == count(kind["own"], st["own"])

add_account_nocheck(h, kind, st, account) ==
    LET r == add(kind["own"], h, st["own"], Item(0, account))
    IN  [heap |-> r.heap, store |-> [st EXCEPT !["own"] = r.content],
         ret |-> None, raised |-> r.raised, pesel |-> None, adds |-> 1,
         ok |-> r.ok]

\* AccountRegistry.add_account
add_account(h, kind, st, account) ==
    IF find_account_by_pesel(h, kind, st, account.pesel) # NoItem
    THEN [heap |-> h, store |-> st, ret |-> None,
          raised |-> "DuplicatePeselError", pesel |-> account.pesel,
          adds |-> 0, ok |-> TRUE]
    ELSE LET r == add(kind["own"], h, st["own"], Item(0, account))
         IN  [heap |-> r.heap, store |-> [st EXCEPT !["own"] = r.content],
              ret |-> None, raised |-> r.raised, pesel |-> None, adds |-> 1,
              ok |-> r.ok]

\* AccountRegistry.save_accounts_to_repository
save_accounts_to_repository(h, kind, st, repository) ==
    LET target_repository == Resolve(repository)
        accounts == get_all_accounts(h, kind, st)
        r == save_all(KindOf(kind, target_repository), h,
                      st[target_repository], accounts)
    IN  [heap |-> r.heap,
         store |-> [st EXCEPT ![target_repository] = r.content],
         ret |-> IF r.raised = None THEN r.ret ELSE None,
         raised |-> r.raised, pesel |-> None, adds |-> 0, ok |-> r.ok]

\* load_accounts_from_repository with a load_all of the in-memory repository
\* that returns the stored list itself: clearing the backend empties it
load_accounts_from_repository_alias(h, kind, st, repository) ==
    LET source_repository == Resolve(repository)
        accounts == IF source_repository = "own" /\ kind["own"] = "memory"
                    THEN <<>>
                    ELSE load_all(KindOf(kind, source_repository), h,
                                  st[source_repository])
        cleared == [st EXCEPT !["own"] = <<>>]
        r == add_each(kind["own"], h, <<>>, accounts)
    IN  [heap |-> r.heap, store |-> [cleared EXCEPT !["own"] = r.content],
         ret |-> IF r.raised = None THEN Len(accounts) ELSE None,
         raised |-> r.raised, pesel |-> None, adds |-> Len(accounts),
         ok |-> r.ok]

load_accounts_from_repository_noclear(h, kind, st, repository) ==
    LET source_repository == Resolve(repository)
        accounts == load_all(KindOf(kind, source_repository), h,
                             st[source_repository])
        r == add_each(kind["own"], h, st["own"], accounts)
    IN  [heap |-> r.heap, store |-> [st EXCEPT !["own"] = r.content],
         ret |-> IF r.raised = None THEN Len(accounts) ELSE None,
         raised |-> r.raised, pesel |-> None, adds |-> Len(accounts),
         ok |-> r.ok]

\* AccountRegistry.load_accounts_from_repository
load_accounts_from_repository(h, kind, st, repository) ==
    LET source_repository == Resolve(repository)
        accounts == load_all(KindOf(kind, source_repository), h,
                             st[source_repository])
        cleared == [st EXCEPT !["own"] = <<>>]
        r == add_each(kind["own"], h, <<>>, accounts)
    IN  [heap |-> r.heap, store |-> [cleared EXCEPT !["own"] = r.content],
         ret |-> IF r.raised = None THEN Len(accounts) ELSE None,
         raised |-> r.raised, pesel |-> None, adds |-> Len(accounts),
         ok |-> r.ok]

\* AccountRegistry.delete_account
delete_account(h, kind, st, pesel) ==
    LET r == delete(kind["own"], h, st["own"], pesel)
    IN  [heap |-> r.heap, store |-> [st EXCEPT !["own"] = r.content],
         ret |-> r.ret, raised |-> r.raised]

\* AccountRegistry.clear_all_accounts
clear_all_accounts(h, kind, st) ==
    LET r == clear(kind["own"], h, st["own"])
    IN  [heap |-> r.heap, store |-> [st EXCEPT !["own"] = r.content],
         ret |-> r.ret, raised |-> r.raised]

(***************************************************************************)
(* A single account driven through its operations.                         *)
(***************************************************************************)
\* constructor calls that return an account
CtorArgs ==
    [kind : {"base"}, balance : {MaxAmount}]
    \cup [kind : {"personal"}, first_name : {"Jan"}, last_name : {"Kowalski"},
          balance : {MaxAmount}, pesel : {P06}, promo_code : {None}]
    \cup [kind : {"personal"}, first_name : {"Jan"}, last_name : {"Kowalski"},
          balance : {0, MaxAmount}, pesel : {P60}, promo_code : {PROM_123}]
    \cup [kind : {"business"}, company_name : {"Test Corp"},
          nip : {NIP_SHORT}, promo_code : {None}]

Construct(k) ==
    CASE k.kind = "base" -> AccountInit(k.balance)
      [] k.kind = "personal" ->
            PersonalAccountInit(k.first_name, k.last_name, k.balance,
                                k.pesel, k.promo_code)
      [] k.kind = "business" ->
            BusinessAccountInit(k.company_name, k.nip, k.promo_code)

\* the balance the constructor was given (BusinessAccount passes 0.0)
InitialBalance == IF ctor.kind = "business" THEN 0 ELSE ctor.balance

NoCall == [op |-> "none", amount |-> 0, ret |-> None]

\* no account has been built yet
NoAccount == [kind |-> "none", balance |-> 0, historia |-> <<>>]

AccountIdle ==
    /\ ctor = [kind |-> "base", balance |-> 0]
    /\ acct = Construct(ctor)
    /\ call = NoCall

RegistryIdle ==
    /\ heap = EmptyHeap
    /\ kinds = [r \in Repos |-> "memory"]
    /\ store = EmptyStore
    /\ rcall = NoCall

RaceIdle ==
    /\ pc = <<>>
    /\ arg = <<>>
    /\ outcome = <<>>

Init ==
    /\ ctor \in CtorArgs
    /\ acct = Construct(ctor)
    /\ call = NoCall
    /\ RegistryIdle
    /\ RaceIdle

IncomingTransfer ==
    \E amount \in Amounts :
        /\ acct' = incoming_transfer(acct, amount)
        /\ Len(acct'.historia) <= MaxHist
        /\ call' = [op |-> "incoming_transfer", amount |-> amount, ret |-> None]
        /\ UNCHANGED <<ctor, registryVars, raceVars>>

OutgoingTransfer ==
    \E amount \in Amounts :
        /\ acct' = outgoing_transfer(acct, amount)
        /\ Len(acct'.historia) <= MaxHist
        /\ call' = [op |-> "outgoing_transfer", amount |-> amount, ret |-> None]
        /\ UNCHANGED <<ctor, registryVars, raceVars>>

ExpressTransfer ==
    \E amount \in Amounts :
        /\ acct' = express_transfer(acct, amount)
        /\ Len(acct'.historia) <= MaxHist
        /\ call' = [op |-> "express_transfer", amount |-> amount, ret |-> None]
        /\ UNCHANGED <<ctor, registryVars, raceVars>>

SubmitForLoan ==
    \E amount \in Amounts :
        /\ acct.kind = "personal"
        /\ acct' = submit_for_loan(acct, amount)
        /\ Len(acct'.historia) <= MaxHist
        /\ call' = [op |-> "submit_for_loan", amount |-> amount,
                    ret |-> is_granted(acct, amount)]
        /\ UNCHANGED <<ctor, registryVars, raceVars>>

Next ==
    \/ IncomingTransfer
    \/ OutgoingTransfer
    \/ ExpressTransfer
    \/ SubmitForLoan

Spec == Init /\ [][Next]_vars

(***************************************************************************)
(* A single account driven through its transfers only.                     *)
(***************************************************************************)
NextTransfers ==
    \/ IncomingTransfer
    \/ OutgoingTransfer
    \/ ExpressTransfer

SpecTransfers == Init /\ [][NextTransfers]_vars

(***************************************************************************)
(* A personal account: its construction, then a few operations.            *)
(***************************************************************************)
\* most history entries of a personal account followed after construction
MaxLater == 3

\* "69241114012"
P69 == <<54, 57, 50, 52, 49, 49, 49, 52, 48, 49, 50>>
\* "70241114012"
P70 == <<55, 48, 50, 52, 49, 49, 49, 52, 48, 49, 50>>
\* "59241114012"
P59 == <<53, 57, 50, 52, 49, 49, 49, 52, 48, 49, 50>>
\* "602411140123", twelve characters
P60long == <<54, 48, 50, 52, 49, 49, 49, 52, 48, 49, 50, 51>>
\* "PROM_1234"
PROM_1234 == <<80, 82, 79, 77, 95, 49, 50, 51, 52>>
\* "PROM_XYZ"
PROM_XYZ == <<80, 82, 79, 77, 95, 88, 89, 90>>
\* "prom_123"
prom_123 == <<112, 114, 111, 109, 95, 49, 50, 51>>

Pesels == {P60, P69, P59, P70, P06, P80, P65short, P60long}

PromoCodes == {None, PROM_123, PROM_XYZ, PROM_12, PROM_1234, PRIM_123, prom_123}

\* amounts passed to the operations that follow a construction
LaterAmounts == {-1, 1}

InitPersonal ==
    /\ ctor = [kind |-> "base", balance |-> 0]
    /\ acct = NoAccount
    /\ call = NoCall
    /\ RegistryIdle
    /\ RaceIdle

\* acct = PersonalAccount("Jan", "Kowalski", balance, pesel, promo_code)
NewPersonalAccount ==
    \E balance \in {0, MaxAmount}, pesel \in Pesels, promo_code \in PromoCodes :
        /\ acct.kind = "none"
        /\ acct' = PersonalAccountInit("Jan", "Kowalski", balance, pesel,
                                       promo_code)
        /\ call' = [op |-> "PersonalAccount", balance |-> balance,
                    pesel |-> pesel, promo_code |-> promo_code]
        /\ UNCHANGED <<ctor, registryVars, raceVars>>

PersonalIncomingTransfer ==
    \E amount \in LaterAmounts :
        /\ acct.kind = "personal"
        /\ acct' = incoming_transfer(acct, amount)
        /\ Len(acct'.historia) <= MaxLater
        /\ call' = [op |-> "incoming_transfer", amount |-> amount, ret |-> None]
        /\ UNCHANGED <<ctor, registryVars, raceVars>>

PersonalOutgoingTransfer ==
    \E amount \in LaterAmounts :
        /\ acct.kind = "personal"
        /\ acct' = outgoing_transfer(acct, amount)
        /\ Len(acct'.historia) <= MaxLater
        /\ call' = [op |-> "outgoing_transfer", amount |-> amount, ret |-> None]
        /\ UNCHANGED <<ctor, registryVars, raceVars>>

PersonalExpressTransfer ==
    \E amount \in LaterAmounts :
        /\ acct.kind = "personal"
        /\ acct' = express_transfer(acct, amount)
        /\ Len(acct'.historia) <= MaxLater
        /\ call' = [op |-> "express_transfer", amount |-> amount, ret |-> None]
        /\ UNCHANGED <<ctor, registryVars, raceVars>>

PersonalSubmitForLoan ==
    \E amount \in LaterAmounts :
        /\ acct.kind = "personal"
        /\ acct' = submit_for_loan(acct, amount)
        /\ Len(acct'.historia) <= MaxLater
        /\ call' = [op |-> "submit_for_loan", amount |-> amount,
                    ret |-> is_granted(acct, amount)]
        /\ UNCHANGED <<ctor, registryVars, raceVars>>

NextPersonal ==
    \/ NewPersonalAccount
    \/ PersonalIncomingTransfer
    \/ PersonalOutgoingTransfer
    \/ PersonalExpressTransfer
    \/ PersonalSubmitForLoan

SpecPersonal == InitPersonal /\ [][NextPersonal]_vars

(***************************************************************************)
(* A business account: its construction, then its operations.              *)
(***************************************************************************)
\* "123456789A"
NIP_LETTER == <<49, 50, 51, 52, 53, 54, 55, 56, 57, 65>>
\* "12345678901", eleven digits
NIP_LONG == <<49, 50, 51, 52, 53, 54, 55, 56, 57, 48, 49>>

Nips == {NIP_OK, NIP_SHORT, NIP_LETTER, NIP_LONG}

\* amounts passed to a business account: a negative one, zero, and the
\* amount whose outgoing transfer leaves the entry -1775
BusinessAmounts == {-1, 0, 1775}

InitBusiness ==
    /\ ctor = [kind |-> "base", balance |-> 0]
    /\ acct = NoAccount
    /\ call = NoCall
    /\ RegistryIdle
    /\ RaceIdle

\* acct = BusinessAccount(company_name, nip, promo_code); when the constructor
\* raises, no account is bound
NewBusinessAccount ==
    \E nip \in Nips, promo_code \in {None, PROM_123}, response \in MfResponses :
        LET r == BusinessAccountNew("Test Corp", nip, promo_code, response)
        IN  /\ acct.kind = "none"
            /\ acct' = IF r.raised = None THEN r.account ELSE acct
            /\ call' = [op |-> "BusinessAccount", nip |-> nip,
                         promo_code |-> promo_code, response |-> response,
                         raised |-> r.raised,
                         verifications |-> r.verifications]
            /\ UNCHANGED <<ctor, registryVars, raceVars>>

BusinessIncomingTransfer ==
    \E amount \in BusinessAmounts :
        /\ acct.kind = "business"
        /\ acct' = incoming_transfer(acct, amount)
        /\ Len(acct'.historia) <= MaxHist
        /\ call' = [op |-> "incoming_transfer", amount |-> amount, ret |-> None]
        /\ UNCHANGED <<ctor, registryVars, raceVars>>

BusinessOutgoingTransfer ==
    \E amount \in BusinessAmounts :
        /\ acct.kind = "business"
        /\ acct' = outgoing_transfer(acct, amount)
        /\ Len(acct'.historia) <= MaxHist
        /\ call' = [op |-> "outgoing_transfer", amount |-> amount, ret |-> None]
        /\ UNCHANGED <<ctor, registryVars, raceVars>>

BusinessExpressTransfer ==
    \E amount \in BusinessAmounts :
        /\ acct.kind = "business"
        /\ acct' = express_transfer(acct, amount)
        /\ Len(acct'.historia) <= MaxHist
        /\ call' = [op |-> "express_transfer", amount |-> amount, ret |-> None]
        /\ UNCHANGED <<ctor, registryVars, raceVars>>

\* acct.take_loan(amount)
TakeLoan ==
    \E amount \in BusinessAmounts :
        /\ acct.kind = "business"
        /\ acct' = take_loan(acct, amount)
        /\ Len(acct'.historia) <= MaxHist
        /\ call' = [op |-> "take_loan", amount |-> amount,
                    ret |-> take_loan_granted(acct, amount)]
        /\ UNCHANGED <<ctor, registryVars, raceVars>>

NextBusiness ==
    \/ NewBusinessAccount
    \/ BusinessIncomingTransfer
    \/ BusinessOutgoingTransfer
    \/ BusinessExpressTransfer
    \/ TakeLoan

SpecBusiness == InitBusiness /\ [][NextBusiness]_vars

(***************************************************************************)
(* A registry over either backend, and one repository outside it.         *)
(***************************************************************************)
\* "90020254321"
P90 == <<57, 48, 48, 50, 48, 50, 53, 52, 51, 50, 49>>

\* the PersonalAccount(...) calls whose result is added to a registry or a
\* repository; the first and the last share a PESEL, the second gets the bonus
Persons ==
    {[first_name |-> "Jan", last_name |-> "Kowalski", balance |-> 100,
      pesel |-> P80, promo_code |-> None],
     [first_name |-> "Anna", last_name |-> "Nowak", balance |-> 0,
      pesel |-> P60, promo_code |-> PROM_123],
     [first_name |-> "Ewa", last_name |-> "Kowal", balance |-> 200,
      pesel |-> P80, promo_code |-> None]}

NewAccount(person) ==
    PersonalAccountInit(person.first_name, person.last_name, person.balance,
                        person.pesel, person.promo_code)

\* the attributes the claims compare
Tuple(account) ==
    <<account.pesel, account.first_name, account.last_name, account.balance,
      account.historia, account.promo_code>>

\* how many times each element occurs in a sequence
BagOf(seq) ==
    [x \in {seq[i] : i \in 1 .. Len(seq)} |->
        Cardinality({i \in 1 .. Len(seq) : seq[i] = x})]

\* the accounts a repository returns from get_all, as a bag of tuples
TuplesOf(h, kind, st, r) ==
    LET all == get_all(KindOf(kind, r), h, st[r])
    IN  BagOf([i \in 1 .. Len(all) |-> Tuple(all[i].val)])

\* what a repository holds, read from its list of objects or from its
\* documents, as a bag of tuples
HeldBy(h, kind, st, r) ==
    IF KindOf(kind, r) = "memory"
    THEN BagOf([i \in 1 .. Len(st[r]) |-> Tuple(h[st[r][i]])])
    ELSE BagOf([i \in 1 .. Len(st[r]) |-> Tuple(st[r][i])])

\* the accounts registry.get_all_accounts() returns, as a bag of tuples
Visible(h, kind, st) == TuplesOf(h, kind, st, "own")

\* the PESELs of the accounts the registry returns, in order
PeselsOf(h, kind, st) ==
    LET all == get_all_accounts(h, kind, st)
    IN  [i \in 1 .. Len(all) |-> all[i].val.pesel]

\* no element occurs twice
Unique(seq) ==
    \A i, j \in 1 .. Len(seq) : seq[i] = seq[j] => i = j

InitRegistry ==
    /\ AccountIdle
    /\ RaceIdle
    /\ heap = EmptyHeap
    /\ kinds \in [Repos -> BackendKinds]
    /\ store = EmptyStore
    /\ rcall = NoCall

\* registry.add_account(PersonalAccount(...))
AddAccount ==
    \E person \in Persons :
        LET r == add_account(heap, kinds, store, NewAccount(person))
        IN  /\ r.ok
            /\ Len(r.store["own"]) <= MaxAccounts
            /\ heap' = Compact(r.heap, kinds, r.store).heap
            /\ store' = Compact(r.heap, kinds, r.store).store
            /\ rcall' = [op |-> "add_account", arg |-> person.pesel,
                         account |-> Tuple(NewAccount(person)),
                         ret |-> r.ret,
                         raised |-> r.raised, pesel |-> r.pesel,
                         adds |-> r.adds]
            /\ UNCHANGED <<kinds, accountVars, raceVars>>

\* registry.save_accounts_to_repository(repository)
SaveAccounts ==
    \E repository \in {None, "own", "ext"} :
        LET r == save_accounts_to_repository(heap, kinds, store, repository)
        IN  /\ r.ok
            /\ heap' = Compact(r.heap, kinds, r.store).heap
            /\ store' = Compact(r.heap, kinds, r.store).store
            /\ rcall' = [op |-> "save_accounts_to_repository",
                         arg |-> repository, ret |-> r.ret,
                         raised |-> r.raised,
                         before |-> TuplesOf(heap, kinds, store, "own")]
            /\ UNCHANGED <<kinds, accountVars, raceVars>>

\* registry.load_accounts_from_repository(repository)
LoadAccounts ==
    \E repository \in {None, "own", "ext"} :
        LET r == load_accounts_from_repository(heap, kinds, store, repository)
        IN  /\ r.ok
            /\ heap' = Compact(r.heap, kinds, r.store).heap
            /\ store' = Compact(r.heap, kinds, r.store).store
            /\ rcall' = [op |-> "load_accounts_from_repository",
                         arg |-> repository, ret |-> r.ret,
                         raised |-> r.raised,
                         after_save |->
                             /\ rcall.op = "save_accounts_to_repository"
                             /\ rcall.arg = repository
                             /\ rcall.raised = None]
            /\ UNCHANGED <<kinds, accountVars, raceVars>>

\* repository.add(PersonalAccount(...)) on a repository outside the registry
RepositoryAdd ==
    \E repo \in {"ext"}, person \in Persons :
        LET r == add(KindOf(kinds, repo), heap, store[repo],
                     Item(0, NewAccount(person)))
        IN  /\ r.ok
            /\ Len(r.content) <= MaxAccounts
            /\ heap' = Compact(r.heap, kinds,
                                [store EXCEPT ![repo] = r.content]).heap
            /\ store' = Compact(r.heap, kinds,
                                 [store EXCEPT ![repo] = r.content]).store
            /\ rcall' = [op |-> "add", arg |-> person.pesel, ret |-> None,
                         raised |-> r.raised]
            /\ UNCHANGED <<kinds, accountVars, raceVars>>

\* the caller builds another repository, empty, of either class
NewRepository ==
    \E k \in BackendKinds :
        /\ kinds' = [kinds EXCEPT !["ext"] = k]
        /\ store' = Compact(heap, kinds', [store EXCEPT !["ext"] = <<>>]).store
        /\ heap' = Compact(heap, kinds', [store EXCEPT !["ext"] = <<>>]).heap
        /\ rcall' = [op |-> "new_repository", arg |-> k, ret |-> None,
                     raised |-> None]
        /\ UNCHANGED <<accountVars, raceVars>>

\* registry.delete_account(pesel)
DeleteAccount ==
    \E pesel \in {person.pesel : person \in Persons} :
        LET r == delete_account(heap, kinds, store, pesel)
        IN  /\ heap' = Compact(r.heap, kinds, r.store).heap
            /\ store' = Compact(r.heap, kinds, r.store).store
            /\ rcall' = [op |-> "delete_account", arg |-> pesel,
                         ret |-> r.ret, raised |-> r.raised,
                         count |-> get_account_count(kinds, store)]
            /\ UNCHANGED <<kinds, accountVars, raceVars>>

\* registry.clear_all_accounts()
ClearAllAccounts ==
    LET r == clear_all_accounts(heap, kinds, store)
    IN  /\ heap' = Compact(r.heap, kinds, r.store).heap
        /\ store' = Compact(r.heap, kinds, r.store).store
        /\ rcall' = [op |-> "clear_all_accounts", arg |-> None,
                     ret |-> r.ret, raised |-> r.raised,
                     count |-> get_account_count(kinds, store)]
        /\ UNCHANGED <<kinds, accountVars, raceVars>>

NextRegistry ==
    \/ AddAccount
    \/ SaveAccounts
    \/ LoadAccounts
    \/ RepositoryAdd
    \/ NewRepository
    \/ DeleteAccount
    \/ ClearAllAccounts

SpecRegistry == InitRegistry /\ [][NextRegistry]_vars

(***************************************************************************)
(* The two backends given the same repository calls: the first repository  *)
(* is an InMemoryAccountRepository, the second a MongoAccountsRepository.   *)
(* rcall.ret and rcall.raised hold what each of them returned and raised,   *)
(* rcall.conforming whether every add so far was of a PESEL not stored and  *)
(* every save_all of a list without repeated PESELs.  The caller keeps the  *)
(* account object it passed to the last add: rcall.held is that object in   *)
(* the program that uses the in-memory repository, rcall.heldp the          *)
(* constructor arguments it was built from, which is all the program that   *)
(* uses the document store needs, since no call changes its object.         *)
(***************************************************************************)
\* the PESELs passed to update, delete and find_by_pesel
PeselArgs == {person.pesel : person \in Persons}

\* the names passed to update, None for a field that is not supplied
FirstNameArgs == {None, "Ola"}

LastNameArgs == {None, "Nowa"}

\* the lists passed to save_all: empty, one account, two accounts, two
\* accounts that share a PESEL
SaveLists ==
    LET jan == CHOOSE q \in Persons : q.first_name = "Jan"
        anna == CHOOSE q \in Persons : q.first_name = "Anna"
        ewa == CHOOSE q \in Persons : q.first_name = "Ewa"
    IN  {<<>>, <<jan>>, <<anna, jan>>, <<jan, ewa>>}

\* what a call returned, for comparison: the tuple of an account, None
\* for no account, any other value as it is
Returned(ret) ==
    IF ret = NoItem THEN None ELSE Tuple(ret.val)

\* find_by_pesel(pesel) of a repository
Found(h, kind, st, r, pesel) ==
    Returned(find_by_pesel(KindOf(kind, r), h, st[r], pesel))

InitRepository ==
    /\ AccountIdle
    /\ RaceIdle
    /\ heap = EmptyHeap
    /\ kinds = [r \in Repos |-> IF r = "own" THEN "memory" ELSE "mongo"]
    /\ store = EmptyStore
    /\ rcall = [op |-> "none", conforming |-> TRUE, held |-> 0,
                heldp |-> None]

\* the caller's own reference, as a list of objects
HeldRoots(held) == IF held = 0 THEN <<>> ELSE <<held>>

\* the caller's own reference after the objects were renumbered
HeldAfter(g) == IF g.held = <<>> THEN 0 ELSE g.held[1]

\* a = PersonalAccount(...); add(a) on both repositories
BothAdd ==
    \E person \in Persons :
        LET r1 == add(kinds["own"], heap, store["own"],
                      Item(0, NewAccount(person)))
            r2 == add(kinds["ext"], r1.heap, store["ext"],
                      Item(0, NewAccount(person)))
            st == [r \in Repos |-> IF r = "own" THEN r1.content ELSE r2.content]
            stored == \E r \in Repos :
                          Found(heap, kinds, store, r, person.pesel) # None
            g == CompactWith(r2.heap, kinds, st,
                             <<r1.content[Len(r1.content)]>>)
        IN  /\ r1.ok /\ r2.ok
            /\ \A r \in Repos : Len(st[r]) <= MaxAccounts
            /\ heap' = g.heap
            /\ store' = g.store
            /\ rcall' = [op |-> "add", arg |-> person.pesel,
                         ret |-> [r \in Repos |-> None],
                         raised |-> [r \in Repos |->
                            IF r = "own" THEN r1.raised ELSE r2.raised],
                         conforming |-> rcall.conforming /\ ~stored,
                         held |-> HeldAfter(g), heldp |-> person]
            /\ UNCHANGED <<kinds, accountVars, raceVars>>

\* update(pesel, first_name, last_name) on both repositories
BothUpdate ==
    \E pesel \in PeselArgs, first_name \in FirstNameArgs,
       last_name \in LastNameArgs :
        LET r1 == update(kinds["own"], heap, store["own"], pesel, first_name,
                         last_name)
            r2 == update(kinds["ext"], r1.heap, store["ext"], pesel,
                         first_name, last_name)
            st == [r \in Repos |-> IF r = "own" THEN r1.content ELSE r2.content]
            g == CompactWith(r2.heap, kinds, st, HeldRoots(rcall.held))
        IN  /\ heap' = g.heap
            /\ store' = g.store
            /\ rcall' = [op |-> "update", arg |-> pesel,
                         first_name |-> first_name, last_name |-> last_name,
                         ret |-> [r \in Repos |->
                            Returned(IF r = "own" THEN r1.ret ELSE r2.ret)],
                         raised |-> [r \in Repos |->
                            IF r = "own" THEN r1.raised ELSE r2.raised],
                         conforming |-> rcall.conforming,
                         held |-> HeldAfter(g), heldp |-> rcall.heldp]
            /\ UNCHANGED <<kinds, accountVars, raceVars>>

\* delete(pesel) on both repositories
BothDelete ==
    \E pesel \in PeselArgs :
        LET r1 == delete(kinds["own"], heap, store["own"], pesel)
            r2 == delete(kinds["ext"], r1.heap, store["ext"], pesel)
            st == [r \in Repos |-> IF r = "own" THEN r1.content ELSE r2.content]
            g == CompactWith(r2.heap, kinds, st, HeldRoots(rcall.held))
        IN  /\ heap' = g.heap
            /\ store' = g.store
            /\ rcall' = [op |-> "delete", arg |-> pesel,
                         ret |-> [r \in Repos |->
                            IF r = "own" THEN r1.ret ELSE r2.ret],
                         raised |-> [r \in Repos |->
                            IF r = "own" THEN r1.raised ELSE r2.raised],
                         conforming |-> rcall.conforming,
                         held |-> HeldAfter(g), heldp |-> rcall.heldp]
            /\ UNCHANGED <<kinds, accountVars, raceVars>>

\* clear() on both repositories
BothClear ==
    LET r1 == clear(kinds["own"], heap, store["own"])
        r2 == clear(kinds["ext"], r1.heap, store["ext"])
        st == [r \in Repos |-> IF r = "own" THEN r1.content ELSE r2.content]
        g == CompactWith(r2.heap, kinds, st, HeldRoots(rcall.held))
    IN  /\ heap' = g.heap
        /\ store' = g.store
        /\ rcall' = [op |-> "clear", arg |-> None,
                     ret |-> [r \in Repos |-> None],
                     raised |-> [r \in Repos |-> None],
                     conforming |-> rcall.conforming,
                     held |-> HeldAfter(g), heldp |-> rcall.heldp]
        /\ UNCHANGED <<kinds, accountVars, raceVars>>

RECURSIVE ItemTuples(_)
\* the accounts of a list given to save_all, as tuples
ItemTuples(items) ==
    IF items = <<>> THEN <<>>
    ELSE <<Tuple(Head(items).val)>> \o ItemTuples(Tail(items))

\* the step of a save_all call: items[r] are the accounts the repository r
\* is given
SaveAllStep(items, repeats) ==
    LET r1 == save_all(kinds["own"], heap, store["own"], items["own"])
        r2 == save_all(kinds["ext"], r1.heap, store["ext"], items["ext"])
        st == [r \in Repos |-> IF r = "own" THEN r1.content ELSE r2.content]
        g == CompactWith(r2.heap, kinds, st, HeldRoots(rcall.held))
    IN  /\ r1.ok /\ r2.ok
        /\ \A r \in Repos : Len(st[r]) <= MaxAccounts
        /\ heap' = g.heap
        /\ store' = g.store
        /\ rcall' = [op |-> "save_all",
                     given |-> [r \in Repos |-> ItemTuples(items[r])],
                     ret |-> [r \in Repos |->
                        IF r = "own"
                        THEN (IF r1.raised = None THEN r1.ret ELSE None)
                        ELSE (IF r2.raised = None THEN r2.ret ELSE None)],
                     raised |-> [r \in Repos |->
                        IF r = "own" THEN r1.raised ELSE r2.raised],
                     conforming |-> rcall.conforming /\ ~repeats,
                     held |-> HeldAfter(g), heldp |-> rcall.heldp]
        /\ UNCHANGED <<kinds, accountVars, raceVars>>

\* save_all([PersonalAccount(...), ...]) on both repositories
BothSaveAll ==
    \E list \in SaveLists :
        /\ Len(list) <= MaxAccounts
        /\ SaveAllStep(
               [r \in Repos |->
                   [i \in 1 .. Len(list) |-> Item(0, NewAccount(list[i]))]],
               ~Unique([i \in 1 .. Len(list) |-> list[i].pesel]))

\* save_all([a]) on both repositories, a being the object passed to the last
\* add: the in-memory repository has kept that very object, the document
\* store a document made from it
BothSaveAllHeld ==
    /\ rcall.held # 0
    /\ SaveAllStep(
           [r \in Repos |->
               IF KindOf(kinds, r) = "memory"
               THEN <<Item(rcall.held, heap[rcall.held])>>
               ELSE <<Item(0, NewAccount(rcall.heldp))>>],
           FALSE)

NextRepository ==
    \/ BothAdd
    \/ BothUpdate
    \/ BothDelete
    \/ BothClear
    \/ BothSaveAll
    \/ BothSaveAllHeld

SpecRepository == InitRepository /\ [][NextRepository]_vars

(***************************************************************************)
(* A caller that changes the accounts of a registry through the objects it *)
(* has in hand: the object it passed to add_account or the one             *)
(* find_account_by_pesel returned.  rcall.ref is that object: its id is    *)
(* the place in the heap when an in-memory list refers to it, and 0 when   *)
(* no list does, as for the object MongoAccountsRepository.find_by_pesel   *)
(* builds from a document.                                                 *)
(***************************************************************************)
\* the attributes of the object the caller has in hand
RefVal(h, ref) == IF ref.id # 0 THEN h[ref.id] ELSE ref.val

InitInPlace ==
    /\ AccountIdle
    /\ RaceIdle
    /\ heap = EmptyHeap
    /\ kinds \in {k \in [Repos -> BackendKinds] : k["ext"] = "memory"}
    /\ store = EmptyStore
    /\ rcall = [op |-> "none", ref |-> NoItem, amount |-> 0]

\* a = PersonalAccount(...); registry.add_account(a); the caller keeps a
InPlaceAddAccount ==
    \E person \in Persons :
        LET r == add_account(heap, kinds, store, NewAccount(person))
            own == r.store["own"]
        IN  /\ r.ok
            /\ Len(own) <= MaxAccounts
            /\ heap' = r.heap
            /\ store' = r.store
            /\ rcall' = [op |-> "add_account",
                         ref |-> IF r.raised # None THEN NoItem
                                 ELSE IF KindOf(kinds, "own") = "memory"
                                 THEN Item(own[Len(own)], r.heap[own[Len(own)]])
                                 ELSE Item(0, NewAccount(person)),
                         amount |-> 0]
            /\ UNCHANGED <<kinds, accountVars, raceVars>>

\* a = registry.find_account_by_pesel(pesel)
InPlaceFind ==
    \E pesel \in {person.pesel : person \in Persons} :
        /\ rcall' = [op |-> "find_account_by_pesel",
                     ref |-> find_account_by_pesel(heap, kinds, store, pesel),
                     amount |-> 0]
        /\ UNCHANGED <<heap, kinds, store, accountVars, raceVars>>

\* a call that changes the object in hand: the object in the heap when a list
\* refers to it, the caller's own object otherwise
InPlaceCall(op, after) ==
    /\ rcall.ref # NoItem
    /\ Len(after.historia) <= MaxLater + 1
    /\ heap' = IF rcall.ref.id # 0
               THEN [heap EXCEPT ![rcall.ref.id] = after] ELSE heap
    /\ rcall' = [op |-> op, ref |-> Item(rcall.ref.id, after),
                 amount |-> after.balance - RefVal(heap, rcall.ref).balance]
    /\ UNCHANGED <<kinds, store, accountVars, raceVars>>

\* a.incoming_transfer(amount)
InPlaceIncomingTransfer ==
    \E amount \in LaterAmounts :
        /\ rcall.ref # NoItem
        /\ InPlaceCall("incoming_transfer",
                       incoming_transfer(RefVal(heap, rcall.ref), amount))

\* a.outgoing_transfer(amount)
InPlaceOutgoingTransfer ==
    \E amount \in LaterAmounts :
        /\ rcall.ref # NoItem
        /\ InPlaceCall("outgoing_transfer",
                       outgoing_transfer(RefVal(heap, rcall.ref), amount))

\* a.submit_for_loan(amount)
InPlaceSubmitForLoan ==
    \E amount \in LaterAmounts :
        /\ rcall.ref # NoItem
        /\ InPlaceCall("submit_for_loan",
                       submit_for_loan(RefVal(heap, rcall.ref), amount))

NextInPlace ==
    \/ InPlaceAddAccount
    \/ InPlaceFind
    \/ InPlaceIncomingTransfer
    \/ InPlaceOutgoingTransfer
    \/ InPlaceSubmitForLoan

SpecInPlace == InitInPlace /\ [][NextInPlace]_vars

(***************************************************************************)
(* The HTTP layer: POST /api/accounts and POST /api/accounts/<pesel>/       *)
(* transfer on the registry of the application, an AccountRegistry() over  *)
(* the in-memory backend.  A JSON value is a record of its JSON type t and, *)
(* for a number, its value v; for true and false v is the number Python    *)
(* takes them for in a comparison or an addition (bool is a subclass of    *)
(* int).                                                                   *)
(***************************************************************************)
JsonNumber(v) == [t |-> "number", v |-> v]

JsonTrue == [t |-> "bool", v |-> 1]

JsonString == [t |-> "string", v |-> 0]

\* the key "amount" is not in the body
NoAmount == [t |-> "absent", v |-> 0]

\* the values sent as "amount"
JsonAmounts ==
    {JsonNumber(v) : v \in Amounts \ {-1}} \cup {JsonTrue, JsonString}

\* the key "type" is not in the body
Absent == "absent"

\* the values sent as "type"; "INCOMING" stands for every value that is none
\* of the three types
JsonTypes == {"incoming", "outgoing", "express", "INCOMING"}

\* the JSON bodies sent: objects with or without the two keys, the empty
\* object, and the array ["amount", "type"]
Bodies ==
    [kind : {"object"}, amount : JsonAmounts \cup {NoAmount},
     type : JsonTypes \cup {Absent}]
    \cup {[kind |-> "array", amount |-> NoAmount, type |-> Absent]}

\* `not data or "amount" not in data or "type" not in data`: an object holds
\* its keys, the array holds the two strings as elements
MissingRequiredFields(data) ==
    IF data.kind = "array" THEN FALSE
    ELSE data.amount = NoAmount \/ data.type = Absent

\* isinstance(amount, (int, float))
IsIntOrFloat(amount) == amount.t \in {"number", "bool"}

\* transfer(pesel) of api.py: the status answered and the heap afterwards
transfer(h, kind, st, pesel, data) ==
    LET account == find_account_by_pesel(h, kind, st, pesel)
    IN  IF account = NoItem THEN [heap |-> h, status |-> 404]
        ELSE IF MissingRequiredFields(data) THEN [heap |-> h, status |-> 400]
        \* data["amount"] on a list raises TypeError outside the try block
        ELSE IF data.kind = "array" THEN [heap |-> h, status |-> 500]
        ELSE IF ~IsIntOrFloat(data.amount) \/ data.amount.v <= 0
        THEN [heap |-> h, status |-> 400]
        ELSE IF data.type \notin {"incoming", "outgoing", "express"}
        THEN [heap |-> h, status |-> 400]
        ELSE LET amount == data.amount.v
                 initial_balance == account.val.balance
                 after == CASE data.type = "incoming" ->
                                  incoming_transfer(account.val, amount)
                            [] data.type = "outgoing" ->
                                  outgoing_transfer(account.val, amount)
                            [] data.type = "express" ->
                                  express_transfer(account.val, amount)
                 h2 == [h EXCEPT ![account.id] = after]
             IN  IF data.type # "incoming" /\ after.balance = initial_balance
                 THEN [heap |-> h2, status |-> 422]
                 ELSE [heap |-> h2, status |-> 200]

InitApi ==
    /\ AccountIdle
    /\ RaceIdle
    /\ heap = EmptyHeap
    /\ kinds = [r \in Repos |-> "memory"]
    /\ store = EmptyStore
    /\ rcall = [op |-> "none", status |-> 0]

\* the people an account is created for: two with one PESEL, so that the
\* registry holds one account and no account has the other PESEL
ApiPersons == {person \in Persons : person.pesel = P80}

\* POST /api/accounts: PersonalAccount(name, surname, 0.0, pesel) is added
ApiCreateAccount ==
    \E person \in ApiPersons :
        LET account == PersonalAccountInit(person.first_name, person.last_name,
                                           0, person.pesel, None)
            r == add_account(heap, kinds, store, account)
        IN  /\ r.ok
            /\ Len(r.store["own"]) <= MaxAccounts
            /\ heap' = r.heap
            /\ store' = r.store
            /\ rcall' = [op |-> "create_account", pesel |-> person.pesel,
                         status |-> IF r.raised = None THEN 201 ELSE 409]
            /\ UNCHANGED <<kinds, accountVars, raceVars>>

\* POST /api/accounts/<pesel>/transfer with the body data
ApiTransfer ==
    \E pesel \in {person.pesel : person \in Persons}, data \in Bodies :
        LET r == transfer(heap, kinds, store, pesel, data)
        IN  /\ \A i \in DOMAIN r.heap :
                  r.heap[i] # NoObj => Len(r.heap[i].historia) <= MaxLater
            /\ heap' = r.heap
            /\ rcall' = [op |-> "transfer", pesel |-> pesel, data |-> data,
                         status |-> r.status]
            /\ UNCHANGED <<kinds, store, accountVars, raceVars>>

NextApi ==
    \/ ApiCreateAccount
    \/ ApiTransfer

SpecApi == InitApi /\ [][NextApi]_vars

(***************************************************************************)
(* An in-memory repository filled and emptied through add and delete, with *)
(* room for enough accounts for a delete to leave several behind.          *)
(***************************************************************************)
\* most accounts of that repository
MaxStored == 3

InitOrder ==
    /\ AccountIdle
    /\ RaceIdle
    /\ heap = EmptyHeap
    /\ kinds = [r \in Repos |-> "memory"]
    /\ store = EmptyStore
    /\ rcall = [op |-> "none"]

\* repository.add(PersonalAccount(...))
OrderAdd ==
    \E person \in Persons :
        LET r == add(kinds["own"], heap, store["own"],
                     Item(0, NewAccount(person)))
            st == [store EXCEPT !["own"] = r.content]
        IN  /\ r.ok
            /\ Len(r.content) <= MaxStored
            /\ heap' = Compact(r.heap, kinds, st).heap
            /\ store' = Compact(r.heap, kinds, st).store
            /\ rcall' = [op |-> "add", account |-> Tuple(NewAccount(person))]
            /\ UNCHANGED <<kinds, accountVars, raceVars>>

\* repository.delete(pesel)
OrderDelete ==
    \E pesel \in {person.pesel : person \in Persons} :
        LET r == delete(kinds["own"], heap, store["own"], pesel)
            st == [store EXCEPT !["own"] = r.content]
        IN  /\ heap' = Compact(r.heap, kinds, st).heap
            /\ store' = Compact(r.heap, kinds, st).store
            /\ rcall' = [op |-> "delete", pesel |-> pesel, ret |-> r.ret]
            /\ UNCHANGED <<kinds, accountVars, raceVars>>

\* repository.get_all(); a step only when the previous one was no get_all
OrderGetAll ==
    /\ rcall.op # "get_all"
    /\ rcall' = [op |-> "get_all",
                 all |-> ItemTuples(get_all(kinds["own"], heap, store["own"]))]
    /\ UNCHANGED <<heap, kinds, store, accountVars, raceVars>>

NextOrder ==
    \/ OrderAdd
    \/ OrderDelete
    \/ OrderGetAll

SpecOrder == InitOrder /\ [][NextOrder]_vars

(***************************************************************************)
(* A registry saved to another repository, the target, and used            *)
(* afterwards.  rcall.saved tells whether a save has happened, rcall.snap   *)
(* is what get_all_accounts returned, as tuples, at the last save.         *)
(***************************************************************************)
\* AccountRegistry.update_account
update_account(h, kind, st, pesel, first_name, last_name) ==
    LET r == update(kind["own"], h, st["own"], pesel, first_name, last_name)
    IN  [heap |-> r.heap, store |-> [st EXCEPT !["own"] = r.content],
         ret |-> r.ret, raised |-> r.raised]

\* the people of this registry: they share a PESEL, so it holds one account
SnapshotPersons == {person \in Persons : person.pesel = P80}

SnapshotPesels == {person.pesel : person \in SnapshotPersons}

InitSnapshot ==
    /\ AccountIdle
    /\ RaceIdle
    /\ heap = EmptyHeap
    /\ kinds \in [Repos -> BackendKinds]
    /\ store = EmptyStore
    /\ rcall = [op |-> "none", saved |-> FALSE, snap |-> <<>>]

\* registry.add_account(PersonalAccount(...))
SnapshotAddAccount ==
    \E person \in SnapshotPersons :
        LET r == add_account(heap, kinds, store, NewAccount(person))
        IN  /\ r.ok
            /\ r.raised = None
            /\ Len(r.store["own"]) <= MaxAccounts
            /\ heap' = Compact(r.heap, kinds, r.store).heap
            /\ store' = Compact(r.heap, kinds, r.store).store
            /\ rcall' = [rcall EXCEPT !.op = "add_account"]
            /\ UNCHANGED <<kinds, accountVars, raceVars>>

\* registry.save_accounts_to_repository(target)
SnapshotSave ==
    LET r == save_accounts_to_repository(heap, kinds, store, "ext")
    IN  /\ r.ok
        /\ r.raised = None
        /\ heap' = Compact(r.heap, kinds, r.store).heap
        /\ store' = Compact(r.heap, kinds, r.store).store
        /\ rcall' = [op |-> "save_accounts_to_repository", saved |-> TRUE,
                     snap |-> ItemTuples(get_all_accounts(heap, kinds, store))]
        /\ UNCHANGED <<kinds, accountVars, raceVars>>

\* a call on the account registry.find_account_by_pesel(pesel) returns: it
\* changes the object in the heap when the backend keeps objects, an object
\* built for the caller otherwise
SnapshotCall(op, pesel, after) ==
    LET account == find_account_by_pesel(heap, kinds, store, pesel)
    IN  /\ account # NoItem
        /\ Len(after.historia) <= MaxLater + 1
        /\ heap' = IF account.id # 0
                   THEN [heap EXCEPT ![account.id] = after] ELSE heap
        /\ rcall' = [rcall EXCEPT !.op = op]
        /\ UNCHANGED <<kinds, store, accountVars, raceVars>>

\* registry.find_account_by_pesel(pesel).incoming_transfer(amount)
SnapshotIncomingTransfer ==
    \E pesel \in SnapshotPesels, amount \in LaterAmounts :
        /\ find_account_by_pesel(heap, kinds, store, pesel) # NoItem
        /\ SnapshotCall("incoming_transfer", pesel,
               incoming_transfer(
                   find_account_by_pesel(heap, kinds, store, pesel).val,
                   amount))

\* registry.find_account_by_pesel(pesel).submit_for_loan(amount)
SnapshotSubmitForLoan ==
    \E pesel \in SnapshotPesels, amount \in LaterAmounts :
        /\ find_account_by_pesel(heap, kinds, store, pesel) # NoItem
        /\ SnapshotCall("submit_for_loan", pesel,
               submit_for_loan(
                   find_account_by_pesel(heap, kinds, store, pesel).val,
                   amount))

\* registry.update_account(pesel, first_name, last_name)
SnapshotUpdateAccount ==
    \E pesel \in SnapshotPesels, first_name \in FirstNameArgs,
       last_name \in LastNameArgs :
        LET r == update_account(heap, kinds, store, pesel, first_name,
                                last_name)
        IN  /\ heap' = r.heap
            /\ store' = r.store
            /\ rcall' = [rcall EXCEPT !.op = "update_account"]
            /\ UNCHANGED <<kinds, accountVars, raceVars>>

\* registry.load_accounts_from_repository(target)
SnapshotLoad ==
    LET r == load_accounts_from_repository(heap, kinds, store, "ext")
    IN  /\ r.ok
        /\ r.raised = None
        /\ rcall.saved
        /\ heap' = Compact(r.heap, kinds, r.store).heap
        /\ store' = Compact(r.heap, kinds, r.store).store
        /\ rcall' = [rcall EXCEPT !.op = "load_accounts_from_repository"]
        /\ UNCHANGED <<kinds, accountVars, raceVars>>

NextSnapshot ==
    \/ SnapshotAddAccount
    \/ SnapshotSave
    \/ SnapshotIncomingTransfer
    \/ SnapshotSubmitForLoan
    \/ SnapshotUpdateAccount
    \/ SnapshotLoad

SpecSnapshot == InitSnapshot /\ [][NextSnapshot]_vars

(***************************************************************************)
(* Concurrent add_account calls on one registry: the existence check and   *)
(* the backend's add of each call are separate steps.                      *)
(***************************************************************************)
NumThreads == 2

Threads == 1 .. NumThreads

InitRace ==
    /\ AccountIdle
    /\ heap = EmptyHeap
    /\ kinds \in {k \in [Repos -> BackendKinds] : k["ext"] = "memory"}
    /\ store = EmptyStore
    /\ rcall = NoCall
    /\ pc = [t \in Threads |-> "find"]
    /\ arg \in [Threads -> Persons]
    /\ outcome = [t \in Threads |-> None]

\* add_account, first statement: find_account_by_pesel and the raise
RaceFind(t) ==
    /\ pc[t] = "find"
    /\ IF find_account_by_pesel(heap, kinds, store, arg[t].pesel) # NoItem
       THEN /\ pc' = [pc EXCEPT ![t] = "done"]
            /\ outcome' = [outcome EXCEPT ![t] = "DuplicatePeselError"]
       ELSE /\ pc' = [pc EXCEPT ![t] = "add"]
            /\ UNCHANGED outcome
    /\ UNCHANGED <<arg, accountVars, registryVars>>

\* add_account, second statement: self._repository.add(account); what it
\* raises reaches the caller of add_account as it is
RaceAdd(t) ==
    /\ pc[t] = "add"
    /\ LET r == add(kinds["own"], heap, store["own"],
                    Item(0, NewAccount(arg[t])))
       IN  /\ r.ok
           /\ heap' = r.heap
           /\ store' = [store EXCEPT !["own"] = r.content]
           /\ outcome' = [outcome EXCEPT ![t] =
                             IF r.raised = None THEN "added" ELSE r.raised]
    /\ pc' = [pc EXCEPT ![t] = "done"]
    /\ UNCHANGED <<arg, kinds, rcall, accountVars>>

\* create_account of the HTTP layer: the status answered for what add_account
\* did; only DuplicatePeselError is caught, anything else raised is a 500
create_account_status(o) ==
    IF o = "added" THEN 201
    ELSE IF o = "DuplicatePeselError" THEN 409
    ELSE 500

NextRace == \E t \in Threads : RaceFind(t) \/ RaceAdd(t)

SpecRace == InitRace /\ [][NextRace]_vars

(***************************************************************************)
(* An account of any class driven through all its operations, loans        *)
(* included, with amounts large enough for a business loan to be granted.  *)
(***************************************************************************)
\* most history entries of such an account
MaxOps == 4

\* amounts passed to the operations: a negative one, zero, a small one, the
\* ZUS payment a business loan asks for, and one larger than twice that
LedgerAmounts == {-1, 0, 1, 1775, 4000}

InitLedger ==
    /\ ctor \in CtorArgs
    /\ acct = Construct(ctor)
    /\ call = NoCall
    /\ RegistryIdle
    /\ RaceIdle

\* acct.incoming_transfer(amount)
LedgerIncomingTransfer ==
    \E amount \in LedgerAmounts :
        /\ acct' = incoming_transfer(acct, amount)
        /\ Len(acct'.historia) <= MaxOps
        /\ call' = [op |-> "incoming_transfer", amount |-> amount]
        /\ UNCHANGED <<ctor, registryVars, raceVars>>

\* acct.outgoing_transfer(amount)
LedgerOutgoingTransfer ==
    \E amount \in LedgerAmounts :
        /\ acct' = outgoing_transfer(acct, amount)
        /\ Len(acct'.historia) <= MaxOps
        /\ call' = [op |-> "outgoing_transfer", amount |-> amount]
        /\ UNCHANGED <<ctor, registryVars, raceVars>>

\* acct.express_transfer(amount)
LedgerExpressTransfer ==
    \E amount \in LedgerAmounts :
        /\ acct' = express_transfer(acct, amount)
        /\ Len(acct'.historia) <= MaxOps
        /\ call' = [op |-> "express_transfer", amount |-> amount]
        /\ UNCHANGED <<ctor, registryVars, raceVars>>

\* acct.submit_for_loan(amount), a method of PersonalAccount
LedgerSubmitForLoan ==
    \E amount \in LedgerAmounts :
        /\ acct.kind = "personal"
        /\ acct' = submit_for_loan(acct, amount)
        /\ Len(acct'.historia) <= MaxOps
        /\ call' = [op |-> "submit_for_loan", amount |-> amount,
                    ret |-> is_granted(acct, amount)]
        /\ UNCHANGED <<ctor, registryVars, raceVars>>

\* acct.take_loan(amount), a method of BusinessAccount
LedgerTakeLoan ==
    \E amount \in LedgerAmounts :
        /\ acct.kind = "business"
        /\ acct' = take_loan(acct, amount)
        /\ Len(acct'.historia) <= MaxOps
        /\ call' = [op |-> "take_loan", amount |-> amount,
                    ret |-> take_loan_granted(acct, amount)]
        /\ UNCHANGED <<ctor, registryVars, raceVars>>

NextLedger ==
    \/ LedgerIncomingTransfer
    \/ LedgerOutgoingTransfer
    \/ LedgerExpressTransfer
    \/ LedgerSubmitForLoan
    \/ LedgerTakeLoan

SpecLedger == InitLedger /\ [][NextLedger]_vars

(***************************************************************************)
(* A personal account driven through its operations.  call.since tells     *)
(* whether the last three history entries have all been positive at some   *)
(* point with no outgoing_transfer or express_transfer call made since.    *)
(***************************************************************************)
\* constructor calls that return a personal account
LoanCtorArgs == {k \in CtorArgs : k.kind = "personal"}

\* call.since after a call of op that leaves the account a
Since(op, a) ==
    IF op \in {"outgoing_transfer", "express_transfer"}
    THEN check_loan_condition_1(a)
    ELSE call.since \/ check_loan_condition_1(a)

InitLoans ==
    /\ ctor \in LoanCtorArgs
    /\ acct = Construct(ctor)
    /\ call = [op |-> "none", amount |-> 0,
               since |-> check_loan_condition_1(Construct(ctor))]
    /\ RegistryIdle
    /\ RaceIdle

\* acct.incoming_transfer(amount)
LoansIncomingTransfer ==
    \E amount \in Amounts :
        /\ acct' = incoming_transfer(acct, amount)
        /\ Len(acct'.historia) <= MaxHist
        /\ call' = [op |-> "incoming_transfer", amount |-> amount,
                    since |-> Since("incoming_transfer", acct')]
        /\ UNCHANGED <<ctor, registryVars, raceVars>>

\* acct.outgoing_transfer(amount)
LoansOutgoingTransfer ==
    \E amount \in Amounts :
        /\ acct' = outgoing_transfer(acct, amount)
        /\ Len(acct'.historia) <= MaxHist
        /\ call' = [op |-> "outgoing_transfer", amount |-> amount,
                    since |-> Since("outgoing_transfer", acct')]
        /\ UNCHANGED <<ctor, registryVars, raceVars>>

\* acct.express_transfer(amount)
LoansExpressTransfer ==
    \E amount \in Amounts :
        /\ acct' = express_transfer(acct, amount)
        /\ Len(acct'.historia) <= MaxHist
        /\ call' = [op |-> "express_transfer", amount |-> amount,
                    since |-> Since("express_transfer", acct')]
        /\ UNCHANGED <<ctor, registryVars, raceVars>>

\* acct.submit_for_loan(amount)
LoansSubmitForLoan ==
    \E amount \in Amounts :
        /\ acct' = submit_for_loan(acct, amount)
        /\ Len(acct'.historia) <= MaxHist
        /\ call' = [op |-> "submit_for_loan", amount |-> amount,
                    since |-> Since("submit_for_loan", acct'),
                    ret |-> is_granted(acct, amount)]
        /\ UNCHANGED <<ctor, registryVars, raceVars>>

NextLoans ==
    \/ LoansIncomingTransfer
    \/ LoansOutgoingTransfer
    \/ LoansExpressTransfer
    \/ LoansSubmitForLoan

SpecLoans == InitLoans /\ [][NextLoans]_vars

(***************************************************************************)
(* A business account driven through its operations.  call.paid tells      *)
(* whether an outgoing_transfer or express_transfer of exactly 1775 has    *)
(* been accepted.                                                          *)
(***************************************************************************)
\* amounts passed to the operations: the ZUS payment and its negative, a
\* negative one, zero, and one larger than twice the ZUS payment
ZusAmounts == {-1775, -1, 0, 1775, 4000}

\* call.paid after a call of op with amount that turns the account into a
Paid(op, amount, a) ==
    \/ call.paid
    \/ /\ op \in {"outgoing_transfer", "express_transfer"}
       /\ amount = 1775
       /\ a # acct

InitZus ==
    /\ ctor \in {k \in CtorArgs : k.kind = "business"}
    /\ acct = Construct(ctor)
    /\ call = [op |-> "none", amount |-> 0, paid |-> FALSE]
    /\ RegistryIdle
    /\ RaceIdle

\* acct.incoming_transfer(amount)
ZusIncomingTransfer ==
    \E amount \in ZusAmounts :
        /\ acct' = incoming_transfer(acct, amount)
        /\ Len(acct'.historia) <= MaxOps
        /\ call' = [op |-> "incoming_transfer", amount |-> amount,
                    paid |-> Paid("incoming_transfer", amount, acct')]
        /\ UNCHANGED <<ctor, registryVars, raceVars>>

\* acct.outgoing_transfer(amount)
ZusOutgoingTransfer ==
    \E amount \in ZusAmounts :
        /\ acct' = outgoing_transfer(acct, amount)
        /\ Len(acct'.historia) <= MaxOps
        /\ call' = [op |-> "outgoing_transfer", amount |-> amount,
                    paid |-> Paid("outgoing_transfer", amount, acct')]
        /\ UNCHANGED <<ctor, registryVars, raceVars>>

\* acct.express_transfer(amount)
ZusExpressTransfer ==
    \E amount \in ZusAmounts :
        /\ acct' = express_transfer(acct, amount)
        /\ Len(acct'.historia) <= MaxOps
        /\ call' = [op |-> "express_transfer", amount |-> amount,
                    paid |-> Paid("express_transfer", amount, acct')]
        /\ UNCHANGED <<ctor, registryVars, raceVars>>

\* acct.take_loan(amount)
ZusTakeLoan ==
    \E amount \in ZusAmounts :
        /\ acct' = take_loan(acct, amount)
        /\ Len(acct'.historia) <= MaxOps
        /\ call' = [op |-> "take_loan", amount |-> amount,
                    paid |-> Paid("take_loan", amount, acct'),
                    ret |-> take_loan_granted(acct, amount)]
        /\ UNCHANGED <<ctor, registryVars, raceVars>>

NextZus ==
    \/ ZusIncomingTransfer
    \/ ZusOutgoingTransfer
    \/ ZusExpressTransfer
    \/ ZusTakeLoan

SpecZus == InitZus /\ [][NextZus]_vars

(***************************************************************************)
(* Properties of a single account.                                         *)
(***************************************************************************)
\* the bonus credited by the constructor, 0 when none was credited
PromoBonusApplied ==
    IF ctor.kind = "personal" /\ promo_applies(ctor.pesel, ctor.promo_code)
    THEN 50 ELSE 0

\* C1, as stated: balance equals the sum of the history entries plus the
\* promo bonus applied at construction.
C1_BalanceIsHistoryPlusBonus ==
    acct.balance = Sum(acct.historia) + PromoBonusApplied

\* C1, amended: balance equals the initial balance given to the constructor
\* plus the sum of all history entries, the promo bonus being one of these
\* entries and not added a second time.
C1_BalanceIsInitialPlusHistory ==
    acct.balance = InitialBalance + Sum(acct.historia)

\* an account built with the promo bonus and a non-zero initial balance, after
\* an accepted express transfer
C1_Witness ==
    /\ PromoBonusApplied = 50
    /\ InitialBalance > 0
    /\ call.op = "express_transfer"
    /\ Len(acct.historia) >= 3
    /\ acct.historia[Len(acct.historia)] = -1

\* the call made in this step is a transfer the claim calls rejected
RejectedTransfer ==
    \/ call'.op = "incoming_transfer" /\ call'.amount <= 0
    \/ /\ call'.op \in {"outgoing_transfer", "express_transfer"}
       /\ (call'.amount <= 0 \/ call'.amount > acct.balance)

\* C7: a rejected transfer (incoming with amount <= 0, outgoing or express
\* with amount <= 0 or amount > balance) leaves balance and history
\* unchanged, from every reachable state, so also when it is repeated.
C7_RejectedTransferIsNoOp ==
    [][RejectedTransfer =>
          /\ acct'.balance = acct.balance
          /\ acct'.historia = acct.historia]_vars

\* an outgoing transfer of a positive amount has just been rejected on an
\* account that already has a history: the last entry is not its delta
C7_Witness ==
    /\ call.op = "outgoing_transfer"
    /\ call.amount > 0
    /\ Len(acct.historia) > 0
    /\ acct.historia[Len(acct.historia)] # -call.amount
    /\ call.amount > acct.balance

\* the fee the claim states for each kind of account
C8_Fee ==
    CASE acct.kind = "personal" -> 1
      [] acct.kind = "business" -> 5
      [] acct.kind = "base" -> 0

\* C8: express_transfer(amount) is accepted exactly when 0 < amount <= balance;
\* then balance drops by amount + fee and history grows by -amount, -fee;
\* with amount = balance the balance ends at -fee; otherwise nothing changes.
C8_ExpressTransfer ==
    [][call'.op = "express_transfer" =>
          LET amount == call'.amount
          IN  IF 0 < amount /\ amount <= acct.balance
              THEN /\ acct'.balance = acct.balance - (amount + C8_Fee)
                   /\ acct'.historia = acct.historia \o <<-amount, -C8_Fee>>
                   /\ (amount = acct.balance => acct'.balance = -C8_Fee)
              ELSE /\ acct'.balance = acct.balance
                   /\ acct'.historia = acct.historia]_vars

\* a business account after an express transfer of its whole balance
C8_Witness ==
    /\ call.op = "express_transfer"
    /\ acct.kind = "business"
    /\ acct.balance = -5
    /\ LastN(acct.historia, 2) = <<-call.amount, -5>>

\* C9: an accepted incoming transfer raises balance by amount and appends
\* +amount; an accepted outgoing transfer (0 < amount <= balance) lowers
\* balance by amount and appends -amount.
C9_AcceptedTransfer ==
    [][/\ ((call'.op = "incoming_transfer" /\ call'.amount > 0) =>
              /\ acct'.balance = acct.balance + call'.amount
              /\ acct'.historia = Append(acct.historia, call'.amount))
       /\ ((call'.op = "outgoing_transfer" /\ 0 < call'.amount
                /\ call'.amount <= acct.balance) =>
              /\ acct'.balance = acct.balance - call'.amount
              /\ acct'.historia = Append(acct.historia, -call'.amount))]_vars

\* an outgoing transfer of the whole balance has been accepted
C9_Witness ==
    /\ call.op = "outgoing_transfer"
    /\ call.amount > 0
    /\ acct.balance = 0
    /\ Len(acct.historia) > 1
    /\ acct.historia[Len(acct.historia)] = -call.amount

\* condition (a) of the claim on a history h
C10_LastThreePositive(h) ==
    /\ Len(h) >= 3
    /\ h[Len(h)] > 0 /\ h[Len(h) - 1] > 0 /\ h[Len(h) - 2] > 0

\* condition (b) of the claim on a history h
C10_LastFiveExceed(h, amount) ==
    /\ Len(h) >= 5
    /\ h[Len(h)] + h[Len(h) - 1] + h[Len(h) - 2] + h[Len(h) - 3]
          + h[Len(h) - 4] > amount

\* C10: submit_for_loan(amount) returns True exactly when the last 3 history
\* entries are all positive or the last 5 sum to more than amount; when True
\* it adds amount to balance and appends amount; when False nothing changes.
C10_SubmitForLoan ==
    [][call'.op = "submit_for_loan" =>
          LET granted == \/ C10_LastThreePositive(acct.historia)
                         \/ C10_LastFiveExceed(acct.historia, call'.amount)
          IN  /\ call'.ret = granted
              /\ IF granted
                 THEN /\ acct'.balance = acct.balance + call'.amount
                      /\ acct'.historia = Append(acct.historia, call'.amount)
                 ELSE /\ acct'.balance = acct.balance
                      /\ acct'.historia = acct.historia]_vars

\* a loan granted on the sum of the last five entries alone
C10_Witness ==
    /\ call.op = "submit_for_loan"
    /\ call.ret = TRUE
    /\ Len(acct.historia) >= 6
    /\ ~C10_LastThreePositive(SubSeq(acct.historia, 1, Len(acct.historia) - 1))

(***************************************************************************)
(* Properties of the registry.                                             *)
(***************************************************************************)
\* C2: add_account keeps at most one account per PESEL in the registry; when
\* the PESEL is already present it raises DuplicatePeselError carrying that
\* PESEL, does not call the backend's add, and the stored accounts (their
\* number and their fields) stay as they were.
C2_AddAccountKeepsPeselUnique ==
    [][rcall'.op = "add_account" =>
          LET before == PeselsOf(heap, kinds, store)
              after == PeselsOf(heap', kinds', store')
              present == \E i \in 1 .. Len(before) : before[i] = rcall'.arg
          IN  /\ (Unique(before) => Unique(after))
              /\ (present =>
                     /\ rcall'.raised = "DuplicatePeselError"
                     /\ rcall'.pesel = rcall'.arg
                     /\ rcall'.adds = 0
                     /\ get_account_count(kinds', store')
                           = get_account_count(kinds, store)
                     /\ get_all_accounts(heap', kinds', store')
                           = get_all_accounts(heap, kinds, store))]_vars

\* a second account with a stored PESEL was refused by a registry that holds
\* two accounts
C2_Witness ==
    /\ rcall.op = "add_account"
    /\ rcall.raised = "DuplicatePeselError"
    /\ rcall.pesel = P80
    /\ get_account_count(kinds, store) = 2
    /\ Unique(PeselsOf(heap, kinds, store))

C3_RaceReportsDuplicatePesel ==
    (/\ kinds["own"] = "mongo"
     /\ \A t \in Threads : pc[t] = "done"
     /\ \A t, u \in Threads : arg[t].pesel = arg[u].pesel) =>
        /\ Cardinality({t \in Threads : outcome[t] = "added"}) = 1
        /\ \A t \in Threads :
              outcome[t] # "added" =>
                  /\ outcome[t] = "DuplicatePeselError"
                  /\ create_account_status(outcome[t]) = 409

(***************************************************************************)
(* Properties of a business account.                                       *)
(***************************************************************************)
\* C11: take_loan(amount) returns True exactly when balance >= 2 * amount and
\* -1775 occurs anywhere in the history; when True it raises balance by
\* amount and appends the single entry amount; when False balance and history
\* are unchanged.
C11_TakeLoan ==
    [][call'.op = "take_loan" =>
          LET granted ==
                  /\ acct.balance >= 2 * call'.amount
                  /\ -1775 \in {acct.historia[i] : i \in 1 .. Len(acct.historia)}
          IN  /\ call'.ret = granted
              /\ IF granted
                 THEN /\ acct'.balance = acct.balance + call'.amount
                      /\ acct'.historia = Append(acct.historia, call'.amount)
                 ELSE /\ acct'.balance = acct.balance
                      /\ acct'.historia = acct.historia]_vars

\* a loan granted on a balance of exactly twice the amount, the entry -1775
\* lying before a later entry of the history
C11_Witness ==
    /\ call.op = "take_loan"
    /\ call.ret = TRUE
    /\ call.amount = 1775
    /\ acct.balance = 3 * 1775
    /\ Len(acct.historia) >= 3
    /\ acct.historia[Len(acct.historia) - 1] # -1775

(***************************************************************************)
(* Properties of the constructors.                                         *)
(***************************************************************************)
\* the promo code starts with PROM_ and is 8 characters long, the PESEL is
\* 11 characters long and its first two characters are in 60..69
C12_Credited(pesel, promo_code) ==
    /\ promo_code # None
    /\ Len(promo_code) = 8
    /\ \A i \in 1 .. 5 : promo_code[i] = PROM_[i]
    /\ Len(pesel) = 11
    /\ pesel[1] = 54
    /\ pesel[2] \in 48 .. 57

\* the entries a step has appended to the history
C12_Appended == SubSeq(acct'.historia, Len(acct.historia) + 1, Len(acct'.historia))

\* C12: constructing a PersonalAccount credits the bonus exactly when the
\* promo code starts with PROM_ and is 8 characters long, the PESEL is 11
\* characters long and its first two characters are in 60..69: then balance
\* is the initial balance plus 50 and history is [50], otherwise balance is
\* the initial balance and history is empty; no later operation credits the
\* bonus again (what it adds to balance is what it appends to history, and it
\* never appends the bonus).
C12_PromoBonusOnce ==
    [][/\ call'.op = "PersonalAccount" =>
              IF C12_Credited(call'.pesel, call'.promo_code)
              THEN /\ acct'.balance = call'.balance + 50
                   /\ acct'.historia = <<50>>
              ELSE /\ acct'.balance = call'.balance
                   /\ acct'.historia = <<>>
       /\ acct.kind = "personal" =>
              /\ Len(acct'.historia) >= Len(acct.historia)
              /\ SubSeq(acct'.historia, 1, Len(acct.historia)) = acct.historia
              /\ \A i \in 1 .. Len(C12_Appended) : C12_Appended[i] # 50
              /\ acct'.balance = acct.balance + Sum(C12_Appended)
              /\ acct'.pesel = acct.pesel
              /\ acct'.promo_code = acct.promo_code]_vars

\* an account built with balance 0, a PESEL that starts with 69 and the code
\* PROM_XYZ holds the bonus and has spent part of it since
C12_Witness ==
    /\ acct.kind = "personal"
    /\ acct.pesel = P69
    /\ acct.promo_code # None
    /\ acct.promo_code = PROM_XYZ
    /\ call.op = "outgoing_transfer"
    /\ acct.historia = <<50, -1>>
    /\ acct.balance = 49

\* the NIP is exactly 10 digits
C13_TenDigits(nip) == Len(nip) = 10 /\ \A i \in 1 .. 10 : nip[i] \in 48 .. 57

\* C13: constructing a BusinessAccount with a NIP that is not exactly 10
\* digits gives an account with nip "Invalid", balance 0 and empty history
\* and never calls the verification; with a NIP of 10 digits the
\* verification is called exactly once, the construction fails with the same
\* error when the company is not active, not found or the request fails, and
\* otherwise gives an account with that NIP, balance 0 and empty history,
\* also when a promo code is passed.
C13_BusinessAccountConstruction ==
    [][call'.op = "BusinessAccount" =>
          IF ~C13_TenDigits(call'.nip)
          THEN /\ call'.raised = None
               /\ call'.verifications = 0
               /\ acct'.kind = "business"
               /\ acct'.nip = "Invalid"
               /\ acct'.balance = 0
               /\ acct'.historia = <<>>
          ELSE /\ call'.verifications = 1
               /\ IF call'.response # "Czynny"
                  THEN /\ call'.raised = "ValueError"
                       /\ acct' = acct
                  ELSE /\ call'.raised = None
                       /\ acct'.kind = "business"
                       /\ acct'.nip = call'.nip
                       /\ acct'.balance = 0
                       /\ acct'.historia = <<>>]_vars

\* a construction with a NIP of 10 digits and a promo code has just failed
\* because the request to the tax authority raised
C13_Witness ==
    /\ call.op = "BusinessAccount"
    /\ call.nip = NIP_OK
    /\ call.promo_code # None
    /\ call.response = "exception"
    /\ call.raised = "ValueError"
    /\ call.verifications = 1
    /\ acct.kind = "none"

(***************************************************************************)
(* Properties of the repositories.                                         *)
(***************************************************************************)
\* the accounts of a repository in the order get_all returns them, as tuples
\* <<pesel, first_name, last_name, balance, history, promo_code>>
TupleSeq(h, kind, st, r) ==
    LET all == get_all(KindOf(kind, r), h, st[r])
    IN  [i \in 1 .. Len(all) |-> Tuple(all[i].val)]

\* the positions of the tuples with a PESEL
WithPesel(tuples, pesel) == {i \in 1 .. Len(tuples) : tuples[i][1] = pesel}

\* C14: update(pesel, first_name?, last_name?) on either backend changes only
\* the name fields that are supplied: an omitted field keeps its value, with
\* neither supplied the stored account is returned unchanged, an unknown
\* PESEL returns absent with nothing changed; pesel, balance, history and
\* promo_code of the account, the number of accounts and every other account
\* stay as they were.
C14_UpdateChangesOnlySuppliedNames ==
    [][rcall'.op = "update" =>
          \A r \in Repos :
              LET before == TupleSeq(heap, kinds, store, r)
                  after == TupleSeq(heap', kinds', store', r)
                  hits == WithPesel(before, rcall'.arg)
              IN  /\ Len(after) = Len(before)
                  /\ rcall'.raised[r] = None
                  /\ IF hits = {}
                     THEN /\ rcall'.ret[r] = None
                          /\ after = before
                     ELSE LET i == Min(hits)
                              old == before[i]
                              new == <<old[1],
                                       IF rcall'.first_name = None THEN old[2]
                                       ELSE rcall'.first_name,
                                       IF rcall'.last_name = None THEN old[3]
                                       ELSE rcall'.last_name,
                                       old[4], old[5], old[6]>>
                          IN  /\ after = [before EXCEPT ![i] = new]
                              /\ rcall'.ret[r] = new]_vars

\* only the first name of the second of two stored accounts was supplied:
\* both backends return the account with its last name as it was
C14_Witness ==
    /\ rcall.op = "update"
    /\ rcall.first_name = "Ola"
    /\ rcall.last_name = None
    /\ \A r \in Repos :
          /\ Len(store[r]) = 2
          /\ rcall.ret[r] # None
          /\ rcall.ret[r] = TupleSeq(heap, kinds, store, r)[2]
          /\ rcall.ret[r][2] = "Ola"
          /\ rcall.ret[r][3] = "Nowak"

\* C15, as stated: delete(pesel) returns True exactly when an account with
\* that PESEL is stored; then the count drops by one, find_by_pesel(pesel) is
\* absent afterwards and every other account is unchanged; otherwise it
\* returns False, raises nothing and leaves the stored accounts unchanged.
C15_DeleteLeavesPeselAbsent ==
    [][rcall'.op = "delete" =>
          \A r \in Repos :
              LET before == TupleSeq(heap, kinds, store, r)
                  after == TupleSeq(heap', kinds', store', r)
                  hits == WithPesel(before, rcall'.arg)
              IN  /\ rcall'.ret[r] = (hits # {})
                  /\ rcall'.raised[r] = None
                  /\ IF hits # {}
                     THEN /\ Len(after) = Len(before) - 1
                          /\ Found(heap', kinds', store', r, rcall'.arg) = None
                          /\ \E i \in hits : after = RemoveAt(before, i)
                     ELSE after = before]_vars

\* C15, amended: delete(pesel) returns True exactly when an account with that
\* PESEL is stored; then the count drops by one, the first stored account
\* with that PESEL is gone, every other account is unchanged, and
\* find_by_pesel(pesel) is absent afterwards exactly when no other stored
\* account had that PESEL; otherwise it returns False, raises nothing and
\* leaves the stored accounts unchanged.
C15_DeleteRemovesFirstWithPesel ==
    [][rcall'.op = "delete" =>
          \A r \in Repos :
              LET before == TupleSeq(heap, kinds, store, r)
                  after == TupleSeq(heap', kinds', store', r)
                  hits == WithPesel(before, rcall'.arg)
              IN  /\ rcall'.ret[r] = (hits # {})
                  /\ rcall'.raised[r] = None
                  /\ IF hits # {}
                     THEN /\ Len(after) = Len(before) - 1
                          /\ after = RemoveAt(before, Min(hits))
                          /\ (Found(heap', kinds', store', r, rcall'.arg) = None)
                                <=> (Cardinality(hits) = 1)
                     ELSE after = before]_vars

\* the in-memory repository held two accounts with the PESEL that was
\* deleted and still finds one, the document store held one and finds none
C15_Witness ==
    /\ rcall.op = "delete"
    /\ \A r \in Repos : rcall.ret[r] = TRUE
    /\ Found(heap, kinds, store, "own", rcall.arg) # None
    /\ Found(heap, kinds, store, "ext", rcall.arg) = None

\* the PESELs of a list of tuples
C17_Pesels(tuples) == [i \in 1 .. Len(tuples) |-> tuples[i][1]]

\* the position of the first tuple whose PESEL occurs earlier in the list
C17_FirstRepeat(tuples) ==
    Min({j \in 1 .. Len(tuples) :
            \E i \in 1 .. j - 1 : tuples[i][1] = tuples[j][1]})

\* C17, as stated: save_all(accounts) on either backend replaces the whole
\* content: afterwards the backend holds exactly the given accounts and the
\* returned number is the number of accounts given; with an empty list it
\* returns 0 and the backend is empty.
C17_SaveAllReplacesContent ==
    [][rcall'.op = "save_all" =>
          \A r \in Repos :
              /\ rcall'.raised[r] = None
              /\ rcall'.ret[r] = Len(rcall'.given[r])
              /\ TupleSeq(heap', kinds', store', r) = rcall'.given[r]]_vars

\* C17, amended: save_all(accounts) replaces the whole content and returns
\* the number of accounts given (0 and an empty backend for an empty list) on
\* the in-memory backend for every list and on the document store for every
\* list without repeated PESELs; given a list with a repeated PESEL the
\* document store raises BulkWriteError and holds the accounts that precede
\* the first repeat, what it stored before being gone.
C17_SaveAllReplacesOrRaises ==
    [][rcall'.op = "save_all" =>
          \A r \in Repos :
              IF KindOf(kinds, r) = "mongo" /\ ~Unique(C17_Pesels(rcall'.given[r]))
              THEN /\ rcall'.raised[r] = "BulkWriteError"
                   /\ TupleSeq(heap', kinds', store', r)
                         = SubSeq(rcall'.given[r], 1,
                                  C17_FirstRepeat(rcall'.given[r]) - 1)
              ELSE /\ rcall'.raised[r] = None
                   /\ rcall'.ret[r] = Len(rcall'.given[r])
                   /\ TupleSeq(heap', kinds', store', r) = rcall'.given[r]]_vars

\* a list of two accounts with one PESEL was saved: the in-memory repository
\* holds both and returned 2, the document store raised and holds the first
C17_Witness ==
    /\ rcall.op = "save_all"
    /\ Len(rcall.given["ext"]) = 2
    /\ rcall.ret["own"] = 2
    /\ Len(store["own"]) = 2
    /\ rcall.raised["ext"] = "BulkWriteError"
    /\ Len(store["ext"]) = 1

\* the accounts load_all returns, as a bag of tuples
C18_Loaded(r) ==
    LET all == load_all(KindOf(kinds, r), heap, store[r])
    IN  BagOf([i \in 1 .. Len(all) |-> Tuple(all[i].val)])

\* C18: the two backends are interchangeable: after every sequence of add (of
\* a PESEL not currently stored), update, delete, clear and save_all (of a
\* list without repeated PESELs) the in-memory and the document-store
\* backend have returned and raised the same, and find_by_pesel, count,
\* get_all and load_all give the same on both, the lists up to their order.
C18_BackendsInterchangeable ==
    (rcall.op # "none" /\ rcall.conforming) =>
        /\ rcall.ret["own"] = rcall.ret["ext"]
        /\ rcall.raised["own"] = rcall.raised["ext"]
        /\ \A pesel \in PeselArgs :
              Found(heap, kinds, store, "own", pesel)
                 = Found(heap, kinds, store, "ext", pesel)
        /\ count(KindOf(kinds, "own"), store["own"])
              = count(KindOf(kinds, "ext"), store["ext"])
        /\ TuplesOf(heap, kinds, store, "own")
              = TuplesOf(heap, kinds, store, "ext")
        /\ C18_Loaded("own") = C18_Loaded("ext")

\* C20: the document-store backend enforces PESEL uniqueness by itself: add,
\* called on the repository directly, of an account whose PESEL is already
\* stored raises DuplicateKeyError and leaves the count and the stored
\* accounts, the one with that PESEL included, unchanged.
C20_MongoAddEnforcesUniquePesel ==
    [][rcall'.op = "add" =>
          \A r \in Repos :
              (/\ KindOf(kinds, r) = "mongo"
               /\ Found(heap, kinds, store, r, rcall'.arg) # None) =>
                  /\ rcall'.raised[r] = "DuplicateKeyError"
                  /\ count(KindOf(kinds', r), store'[r])
                        = count(KindOf(kinds, r), store[r])
                  /\ TupleSeq(heap', kinds', store', r)
                        = TupleSeq(heap, kinds, store, r)
                  /\ Found(heap', kinds', store', r, rcall'.arg)
                        = Found(heap, kinds, store, r, rcall'.arg)]_vars

\* Ewa Kowal was added with the PESEL of the stored Jan Kowalski: the document
\* store raised and still holds Jan Kowalski only
C20_Witness ==
    /\ rcall.op = "add"
    /\ rcall.heldp.first_name = "Ewa"
    /\ rcall.raised["ext"] = "DuplicateKeyError"
    /\ rcall.raised["own"] = None
    /\ count(KindOf(kinds, "ext"), store["ext"]) = 1
    /\ Found(heap, kinds, store, "ext", rcall.arg) # None
    /\ Found(heap, kinds, store, "ext", rcall.arg)[2] = "Jan"

\* the account find_account_by_pesel(pesel) returns, as a tuple, None when
\* there is none
C16_Find(h, kind, st, pesel) ==
    LET account == find_account_by_pesel(h, kind, st, pesel)
    IN  IF account = NoItem THEN None ELSE Tuple(account.val)

\* C16: uniqueness is about the accounts currently stored: when
\* delete_account(p) has removed an account (it returned True), or
\* clear_all_accounts has run, the add_account of a new account with PESEL p
\* that follows succeeds, find_account_by_pesel(p) returns the new account's
\* data, and the count is one more than after the removal, which after a
\* delete is the count before it.
C16_DeleteThenAddSucceeds ==
    [][(/\ rcall'.op = "add_account"
        /\ \/ rcall.op = "delete_account" /\ rcall.ret /\ rcall.arg = rcall'.arg
           \/ rcall.op = "clear_all_accounts") =>
          /\ rcall'.raised = None
          /\ C16_Find(heap', kinds', store', rcall'.arg) = rcall'.account
          /\ get_account_count(kinds', store')
                = get_account_count(kinds, store) + 1
          /\ rcall.op = "delete_account" =>
                get_account_count(kinds', store') = rcall.count]_vars

\* C19: accounts held by a registry are mutated in place, over either
\* backend: after a transfer or a loan on the account that
\* find_account_by_pesel returned, or on the object that was passed to
\* add_account, find_account_by_pesel of its PESEL returns the balance and
\* the history that the object has.
C19_MutatedInPlace ==
    [][rcall'.op \in {"incoming_transfer", "outgoing_transfer",
                      "submit_for_loan"} =>
          LET a == RefVal(heap', rcall'.ref)
              found == C16_Find(heap', kinds', store', a.pesel)
          IN  /\ found # None
              /\ found[4] = a.balance
              /\ found[5] = a.historia]_vars

(***************************************************************************)
(* Properties of an account over all its operations.                       *)
(***************************************************************************)
\* the entries the step has put at the end of the history
Appended ==
    SubSeq(acct'.historia, Len(acct.historia) + 1, Len(acct'.historia))

\* the call of the step is one the claims call accepted or granted
Accepted ==
    \/ call'.op = "incoming_transfer" /\ call'.amount > 0
    \/ /\ call'.op \in {"outgoing_transfer", "express_transfer"}
       /\ 0 < call'.amount /\ call'.amount <= acct.balance
    \/ call'.op \in {"submit_for_loan", "take_loan"} /\ call'.ret = TRUE

\* C21: the history is append-only and ordered: after every transfer or loan
\* operation the history before it is a prefix of the history after it; it
\* has grown by no entry when the operation was rejected, by one for an
\* accepted incoming or outgoing transfer or a granted loan, by two for an
\* accepted express transfer; and the new entries are the deltas applied to
\* the balance, in order: the one entry is the change of the balance, the
\* two of an express transfer are -amount and then the rest of the change.
C21_HistoryAppendOnly ==
    [][call'.op # "none" =>
          /\ Len(acct'.historia) >= Len(acct.historia)
          /\ SubSeq(acct'.historia, 1, Len(acct.historia)) = acct.historia
          /\ Sum(Appended) = acct'.balance - acct.balance
          /\ ~Accepted => Appended = <<>>
          /\ (Accepted /\ call'.op # "express_transfer") =>
                Appended = <<acct'.balance - acct.balance>>
          /\ (Accepted /\ call'.op = "express_transfer") =>
                Appended = <<-call'.amount,
                             acct'.balance - acct.balance + call'.amount>>
          /\ (Accepted /\ call'.op \in {"incoming_transfer", "submit_for_loan",
                                        "take_loan"}) =>
                Appended = <<call'.amount>>
          /\ (Accepted /\ call'.op = "outgoing_transfer") =>
                Appended = <<-call'.amount>>]_vars

\* a business account that already had a history has made an accepted express
\* transfer: the history ends with the amount and then the fee
C21_Witness ==
    /\ call.op = "express_transfer"
    /\ acct.kind = "business"
    /\ Len(acct.historia) >= 3
    /\ LastN(acct.historia, 2) = <<-1775, -5>>

\* C26: for every account and every sequence of operations (incoming,
\* outgoing and express transfers, submit_for_loan, take_loan, accepted or
\* rejected) balance minus the sum of all history entries equals the initial
\* balance passed to the constructor, 0 for a BusinessAccount; the promo
\* bonus is in the balance and in the history, so it leaves the difference
\* alone.
C26_BalanceMinusHistoryIsInitial ==
    acct.balance - Sum(acct.historia) = InitialBalance

\* a personal account built with the promo bonus and a non-zero balance, after
\* a granted loan
C26_Witness ==
    /\ acct.kind = "personal"
    /\ PromoBonusApplied = 50
    /\ InitialBalance > 0
    /\ call.op = "submit_for_loan"
    /\ call.ret = TRUE
    /\ Len(acct.historia) = 4
    /\ acct.historia[1] = 50

\* C27: an account constructed with a non-negative balance has, after every
\* sequence of incoming, outgoing and express transfers, a balance of at
\* least -express_transfer_fee; outgoing_transfer never makes the balance
\* negative; and while the balance is negative every outgoing and express
\* transfer is rejected.
C27_BalanceAtLeastMinusFee ==
    [][/\ InitialBalance >= 0 =>
             acct'.balance >= -express_transfer_fee(acct')
       /\ (call'.op = "outgoing_transfer" /\ acct.balance >= 0) =>
             acct'.balance >= 0
       /\ (acct.balance < 0
             /\ call'.op \in {"outgoing_transfer", "express_transfer"}) =>
             /\ acct'.balance = acct.balance
             /\ acct'.historia = acct.historia]_vars

\* on a business account whose balance is -5 after an express transfer of the
\* whole balance, an outgoing transfer of a positive amount was rejected
C27_Witness ==
    /\ acct.kind = "business"
    /\ acct.balance = -5
    /\ call.op = "outgoing_transfer"
    /\ call.amount > 0
    /\ acct.historia[Len(acct.historia)] = -5

\* C28: loans never reduce a balance: for every amount, zero and negative
\* amounts included, the balance after submit_for_loan(amount) or
\* take_loan(amount) is greater than or equal to the balance before the call.
C28_LoansNeverReduceBalance ==
    [][call'.op \in {"submit_for_loan", "take_loan"} =>
          acct'.balance >= acct.balance]_vars

(***************************************************************************)
(* Properties of the HTTP layer.                                           *)
(***************************************************************************)
\* the amount of a body is a positive JSON number
C22_PositiveNumber(data) == data.amount.t = "number" /\ data.amount.v > 0

\* the status the claim states for a request, before being the account found
\* under the PESEL as a tuple, None when there is none
C22_Status(before, data) ==
    IF before = None THEN 404
    ELSE IF \/ data.kind # "object"
            \/ data.amount = NoAmount
            \/ data.type = Absent
            \/ ~C22_PositiveNumber(data)
            \/ data.type \notin {"incoming", "outgoing", "express"}
    THEN 400
    ELSE IF data.type \in {"outgoing", "express"} /\ data.amount.v > before[4]
    THEN 422
    ELSE 200

\* the balance and the history the claim states after a 200
C22_Applied(before, data) ==
    LET amount == data.amount.v
        fee == 1
    IN  CASE data.type = "incoming" ->
                <<before[4] + amount, Append(before[5], amount)>>
          [] data.type = "outgoing" ->
                <<before[4] - amount, Append(before[5], -amount)>>
          [] data.type = "express" ->
                <<before[4] - amount - fee, before[5] \o <<-amount, -fee>> >>

\* C22: POST /api/accounts/<pesel>/transfer with a JSON body answers 404 when
\* no account has the PESEL; otherwise 400 when amount or type is missing,
\* amount is not a positive number or type is none of incoming, outgoing,
\* express; otherwise 422 when an outgoing or express transfer is rejected
\* for insufficient funds; otherwise 200.  After every answer other than 200
\* the account's balance and history are unchanged, and after every 200 the
\* transfer has been applied.
C22_TransferStatus ==
    [][rcall'.op = "transfer" =>
          LET before == C16_Find(heap, kinds, store, rcall'.pesel)
              after == C16_Find(heap', kinds', store', rcall'.pesel)
          IN  /\ rcall'.status = C22_Status(before, rcall'.data)
              /\ rcall'.status # 200 => after = before
              /\ rcall'.status = 200 =>
                    <<after[4], after[5]>> = C22_Applied(before, rcall'.data)]_vars

(***************************************************************************)
(* Properties of the in-memory repository's order.                         *)
(***************************************************************************)
\* the accounts registry.get_all_accounts() returns, in order, as tuples
C23_AllAccounts(h, kind, st) ==
    LET all == get_all_accounts(h, kind, st)
    IN  [i \in 1 .. Len(all) |-> Tuple(all[i].val)]

\* C23: the in-memory backend keeps insertion order: get_all, and the
\* registry's get_all_accounts, return the stored accounts in the order they
\* were added: an add puts the account last, also one added again after a
\* delete, and a delete takes one account out and keeps the order of the
\* others.
C23_InsertionOrder ==
    [][LET before == TupleSeq(heap, kinds, store, "own")
           after == TupleSeq(heap', kinds', store', "own")
       IN  /\ C23_AllAccounts(heap', kinds', store') = after
           /\ rcall'.op = "get_all" => rcall'.all = before /\ after = before
           /\ rcall'.op = "add" => after = Append(before, rcall'.account)
           /\ (rcall'.op = "delete" /\ rcall'.ret = TRUE) =>
                 \E i \in 1 .. Len(before) :
                     /\ before[i][1] = rcall'.pesel
                     /\ after = RemoveAt(before, i)
           /\ (rcall'.op = "delete" /\ rcall'.ret = FALSE) =>
                 after = before]_vars

\* Jan Kowalski was deleted from in front of two others and added again: he
\* comes last, behind the two in their old order
C23_Witness ==
    /\ rcall.op = "add"
    /\ Len(store["own"]) = 3
    /\ TupleSeq(heap, kinds, store, "own")[1][2] = "Anna"
    /\ TupleSeq(heap, kinds, store, "own")[2][2] = "Ewa"
    /\ TupleSeq(heap, kinds, store, "own")[3][2] = "Jan"

(***************************************************************************)
(* Properties of concurrent add_account calls on the in-memory repository. *)
(***************************************************************************)
\* how many accounts with a PESEL the registry holds
C24_Held(h, kind, st, pesel) ==
    Cardinality(Matches(kind["own"], h, st["own"], pesel))

\* C24: the in-memory backend gives no uniqueness guarantee under concurrent
\* access: an add_account call that has passed the existence check adds its
\* account and does not raise, whatever another call has added meanwhile, so
\* two interleaved calls for one PESEL leave two accounts with that PESEL
\* and neither raised DuplicatePeselError.
C24_InMemoryAddAfterCheckAlwaysAdds ==
    [][\A t \in Threads :
          (kinds["own"] = "memory" /\ pc[t] = "add" /\ pc'[t] = "done") =>
              /\ outcome'[t] = "added"
              /\ C24_Held(heap', kinds', store', arg[t].pesel)
                     = C24_Held(heap, kinds, store, arg[t].pesel) + 1]_vars

\* two calls for one PESEL have ended, neither raised, and the registry over
\* the in-memory repository holds two accounts with that PESEL
C24_Witness ==
    /\ kinds["own"] = "memory"
    /\ arg[1].pesel = arg[2].pesel
    /\ pc[1] = "done" /\ pc[2] = "done"
    /\ outcome[1] = "added" /\ outcome[2] = "added"
    /\ C24_Held(heap, kinds, store, arg[1].pesel) = 2
    /\ ~Unique(PeselsOf(heap, kinds, store))

(***************************************************************************)
(* Properties of the registry's synchronisation with a repository.         *)
(***************************************************************************)
\* C25: load_accounts_from_repository preserves the registry's PESEL
\* uniqueness: whatever state repository operations left the source in, the
\* registry holds at most one account per PESEL after the load.
C25_LoadKeepsPeselUnique ==
    [][rcall'.op = "load_accounts_from_repository" =>
          Unique(PeselsOf(heap', kinds', store'))]_vars

\* C30: synchronising a registry with its own backend is the identity:
\* save_accounts_to_repository and load_accounts_from_repository called
\* without a repository, or with the registry's own backend, leave the
\* registry's tuples unchanged and return the current account count; the load
\* does not empty the registry.
C30_OwnBackendSyncIsIdentity ==
    [][(/\ rcall'.op \in {"save_accounts_to_repository",
                          "load_accounts_from_repository"}
        /\ Resolve(rcall'.arg) = "own") =>
          /\ rcall'.raised = None
          /\ Visible(heap', kinds', store') = Visible(heap, kinds, store)
          /\ rcall'.ret = get_account_count(kinds, store)
          /\ get_account_count(kinds', store')
                = get_account_count(kinds, store)]_vars

\* a registry over the in-memory repository holding two accounts has been
\* loaded from its own backend and still holds the two
C30_Witness ==
    /\ rcall.op = "load_accounts_from_repository"
    /\ rcall.arg = None
    /\ kinds["own"] = "memory"
    /\ rcall.ret = 2
    /\ get_account_count(kinds, store) = 2

\* what target.find_by_pesel(pesel) returns, as a tuple, None when nothing
C29_Find(h, kind, st, pesel) ==
    LET account == find_by_pesel(KindOf(kind, "ext"), h, st["ext"], pesel)
    IN  IF account = NoItem THEN None ELSE Tuple(account.val)

\* the first tuple of a sequence with a PESEL, None when there is none
C29_First(snap, pesel) ==
    LET hits == {i \in 1 .. Len(snap) : snap[i][1] = pesel}
    IN  IF hits = {} THEN None ELSE snap[Min(hits)]

\* C29: a target repository other than the registry's backend keeps the
\* snapshot it was given: after save_accounts_to_repository(target), later
\* transfers, loans and update_account calls on the registry's accounts do
\* not change what target returns from load_all and find_by_pesel, and a
\* later load_accounts_from_repository(target) restores the accounts as
\* they were at the save.
C29_TargetKeepsSnapshot ==
    rcall.saved =>
        /\ TupleSeq(heap, kinds, store, "ext") = rcall.snap
        /\ \A pesel \in SnapshotPesels :
              C29_Find(heap, kinds, store, pesel) = C29_First(rcall.snap, pesel)
        /\ rcall.op = "load_accounts_from_repository" =>
              TupleSeq(heap, kinds, store, "own") = rcall.snap

(***************************************************************************)
(* Properties of loans over the life of an account.                        *)
(***************************************************************************)
\* C31: once the last three history entries of a personal account are all
\* positive, every following submit_for_loan with a positive amount is
\* granted, as long as no outgoing or express transfer is made in between.
C31_LoansGrantedWithoutBound ==
    [][(/\ call'.op = "submit_for_loan"
        /\ call'.amount > 0
        /\ call.since) => call'.ret = TRUE]_vars

\* C32: on a business account driven only through its operations no
\* take_loan is granted before an outgoing_transfer or express_transfer of
\* exactly 1775 has been accepted, and -1775 is in the history only after
\* one.
C32_NoLoanBeforeZusPayment ==
    [][/\ (call'.op = "take_loan" /\ call'.ret = TRUE) => call.paid
       /\ (\E i \in 1 .. Len(acct'.historia) : acct'.historia[i] = -1775)
              => call'.paid]_vars

\* a loan of 1775 has been granted after an outgoing transfer of 1775
C32_Witness ==
    /\ call.op = "take_loan"
    /\ call.ret = TRUE
    /\ call.paid
    /\ acct.historia = <<4000, 4000, -1775, 1775>>

====
